---- MODULE Spec2Model ----
(***************************************************************************)
(* EmunahAcademy backend (backend/app/main.py over the relational schema   *)
(* of backend/app/db_models.py, seeded by backend/app/db_init.py).         *)
(*                                                                         *)
(* Tables are sets of rows keyed by their serial id.  The two tables whose *)
(* surrogate id no handler ever reads (lesson_completions, quiz_results)   *)
(* are bags of rows without the id: a bag keeps duplicate rows apart,      *)
(* which is all the id does for them.  Columns no handler branches on      *)
(* (names, titles, passwords, order, timestamps other than                 *)
(* Message.created_at) are left out.                                       *)
(*                                                                         *)
(* Quiz scores are Python floats in the source.  They are modelled as      *)
(* exact rationals [num, den] in lowest terms, so that a percentage and a  *)
(* mean are computed, not assumed; float rounding is not modelled.         *)
(***************************************************************************)
EXTENDS Bags, FiniteSets, Integers, Sequences, TLC

(***************************************************************************)
(* Bounds of the model.                                                    *)
(***************************************************************************)
\* highest lesson id the lessons sequence may issue (the seed issues 1..3)
MaxLessonId == 4
\* highest enrollment id the enrollments sequence may issue (seed: 1..4)
MaxEnrollmentId == 6
\* most quiz_results rows stored at once
MaxQuizResults == 2
\* longest answers list of a quiz submission
MaxAnswers == 2
\* most messages ever sent
MaxMessages == 2
\* last reading of the wall clock
MaxTime == 1
\* highest user id the users sequence may issue (seed: 1..7)
MaxUserId == 8
\* highest course id the courses sequence may issue (seed: 1..3)
MaxCourseId == 4
\* highest link id the parent_student_links sequence may issue (seed: 1)
MaxLinkId == 2
\* highest id the evaluations sequence may issue
MaxEvaluationId == 1
\* highest id the evaluation_submissions sequence may issue
MaxSubmissionId == 2
\* highest value application_counter may reach
MaxApplicationId == 2

\* largest calendar event id issued
MaxEventId == 3

(***************************************************************************)
(* Enumerations (db_models.py).                                            *)
(***************************************************************************)
UserRoleEnum == {"superuser", "director", "teacher", "student", "parent"}

LessonTypeEnum == {"video", "text", "quiz"}

(***************************************************************************)
(* Lesson.content is a Text column.  submit_quiz reads it with json.loads  *)
(* and expects a list of question objects; of a question only its          *)
(* "correct_answer" index is read.  A content value is therefore either    *)
(* text that is no JSON (an URL, markup) or a list of correct indices.     *)
(***************************************************************************)
NotJson == [json |-> FALSE, questions |-> <<>>]

QuizContent(correct_indices) == [json |-> TRUE, questions |-> correct_indices]

(***************************************************************************)
(* Exact rationals for the Float columns.                                  *)
(***************************************************************************)
RECURSIVE GCD(_, _)
GCD(a, b) == IF b = 0 THEN a ELSE GCD(b, a % b)

Rat(n, d) == LET g == GCD(n, d) IN [num |-> n \div g, den |-> d \div g]

RatAdd(a, b) == Rat(a.num * b.den + b.num * a.den, a.den * b.den)

RatDiv(a, k) == Rat(a.num, a.den * k)

RatLeq(a, b) == a.num * b.den <= b.num * a.den

\* Optional[...]: None, or a value
None == [none |-> TRUE]

Some(v) == [none |-> FALSE, value |-> v]

(***************************************************************************)
(* State.                                                                  *)
(***************************************************************************)
VARIABLES
    users,          \* rows of "users": [id, email, role, grade_level]
    courses,        \* rows of "courses": [id, title, teacher_id, is_published]
    lessons,        \* rows of "lessons": [id, course_id, lesson_type, content]
    completions,    \* bag of "lesson_completions" rows: [student_id, lesson_id]
    quiz_results,   \* bag of "quiz_results" rows
    enrollments,    \* rows of "enrollments": [id, student_id, course_id]
    messages,       \* rows of "messages"
    links,          \* rows of "parent_student_links": [id, parent_id, student_id]
    evaluations,    \* rows of "evaluations": [id, course_id]
    submissions,    \* rows of "evaluation_submissions"
    calendar_events,        \* rows of "calendar_events": [id, course_id, created_by]
    site_content_db,        \* dict of main.py: section -> content
    applications_db,        \* dict of main.py: id -> application
    application_counter,    \* global of main.py
    seq,            \* last value issued by each table's id sequence
    now,            \* the wall clock read by datetime.utcnow
    resp,           \* the response to the last request served
    pc              \* requests in flight, per worker process

vars == <<users, courses, lessons, completions, quiz_results, enrollments,
          messages, links, evaluations, submissions, calendar_events,
          site_content_db,
          applications_db, application_counter, seq, now, resp, pc>>

\* the tables of the learning domain
learnVars == <<courses, lessons, completions, quiz_results, enrollments>>

\* the tables of the evaluations
evalVars == <<evaluations, submissions>>

\* the parent links, the calendar and the state main.py keeps in the process
adminVars == <<links, calendar_events, site_content_db, applications_db,
               application_counter>>

(***************************************************************************)
(* seed_sample_data: the database after init_database on a fresh schema.   *)
(***************************************************************************)
SeedUsers ==
    { [id |-> 1, email |-> "admin@emunahacademy.com", role |-> "superuser",
       grade_level |-> None],
      [id |-> 2, email |-> "directora@emunahacademy.com", role |-> "director",
       grade_level |-> None],
      [id |-> 3, email |-> "profesor1@emunahacademy.com", role |-> "teacher",
       grade_level |-> None],
      [id |-> 4, email |-> "profesor2@emunahacademy.com", role |-> "teacher",
       grade_level |-> None],
      [id |-> 5, email |-> "estudiante1@emunahacademy.com", role |-> "student",
       grade_level |-> None],
      [id |-> 6, email |-> "estudiante2@emunahacademy.com", role |-> "student",
       grade_level |-> None],
      [id |-> 7, email |-> "padre1@emunahacademy.com", role |-> "parent",
       grade_level |-> None] }

SeedCourses ==
    { [id |-> 1, title |-> "Matematicas Basicas", teacher_id |-> 2,
       is_published |-> TRUE],
      [id |-> 2, title |-> "Lectura y Escritura", teacher_id |-> 3,
       is_published |-> TRUE],
      [id |-> 3, title |-> "Ciencias Naturales", teacher_id |-> 2,
       is_published |-> TRUE] }

SeedEnrollments ==
    { [id |-> 1, student_id |-> 5, course_id |-> 1],
      [id |-> 2, student_id |-> 5, course_id |-> 2],
      [id |-> 3, student_id |-> 6, course_id |-> 1],
      [id |-> 4, student_id |-> 6, course_id |-> 2] }

SeedLessons ==
    { [id |-> 1, course_id |-> 1, lesson_type |-> "text",  content |-> NotJson],
      [id |-> 2, course_id |-> 1, lesson_type |-> "video", content |-> NotJson],
      [id |-> 3, course_id |-> 1, lesson_type |-> "quiz",
       content |-> QuizContent(<<1, 1>>)] }

SeedLinks == { [id |-> 1, parent_id |-> 7, student_id |-> 5] }

\* events_data: two events of the first course, created by the director
SeedEvents ==
    { [id |-> 1, course_id |-> Some(1), created_by |-> 2],
      [id |-> 2, course_id |-> Some(1), created_by |-> 2] }

Workers == {1, 2}

Idle == [at |-> "idle"]

Init ==
    /\ users = SeedUsers
    /\ courses = SeedCourses
    /\ lessons = SeedLessons
    /\ completions = EmptyBag
    /\ quiz_results = EmptyBag
    /\ enrollments = SeedEnrollments
    /\ messages = {}
    /\ links = SeedLinks
    /\ calendar_events = SeedEvents
    /\ evaluations = {}
    /\ submissions = {}
    /\ site_content_db = <<>>
    /\ applications_db = <<>>
    /\ application_counter = 0
    /\ seq = [users |-> 7, courses |-> 3, lessons |-> 3, enrollments |-> 4,
              messages |-> 0, links |-> 1, evaluations |-> 0, submissions |-> 0,
              calendar_events |-> 2]
    /\ now = 0
    /\ resp = [op |-> "startup", status |-> 200]
    /\ pc = [w \in Workers |-> Idle]

(***************************************************************************)
(* Queries.  Each is the set of rows a db.query(...).filter(...) selects;  *)
(* .first() is "the set is not empty" and a row of it.                     *)
(***************************************************************************)
UserById(user_id) == {u \in users : u.id = user_id}

CourseById(course_id) == {c \in courses : c.id = course_id}

LessonById(lesson_id) == {l \in lessons : l.id = lesson_id}

\* mutant: the filter on lesson_id is dropped
ExistingCompletion_AnyLesson(lesson_id, student_id) ==
    {c \in BagToSet(completions) : c.student_id = student_id}

\* complete_lesson: db.query(LessonCompletion).filter(lesson_id, student_id)
ExistingCompletion(lesson_id, student_id) ==
    {c \in BagToSet(completions) :
        c.lesson_id = lesson_id /\ c.student_id = student_id}

\* create_enrollment: db.query(Enrollment).filter(student_id, course_id)
ExistingEnrollment(student_id, course_id) ==
    {e \in enrollments : e.student_id = student_id /\ e.course_id = course_id}

\* the rows of bag B that are in the set rows, with their multiplicity
\* (the rows a filter selects)
BagSelect(B, rows) == [r \in rows \cap DOMAIN B |-> B[r]]

(***************************************************************************)
(* HTTP responses.  status is the HTTPException status_code, 200 for a     *)
(* normal return and 500 for an exception no handler catches.              *)
(***************************************************************************)
Response(op, args, status, body) ==
    [op |-> op, args |-> args, status |-> status, body |-> body]

\* the error kinds of the specification, by HTTP status code
ErrorKind(status_code) ==
    CASE status_code = 400 -> "BadRequest"
      [] status_code = 401 -> "Unauthorized"
      [] status_code = 403 -> "Forbidden"
      [] status_code = 404 -> "NotFound"
      [] status_code = 409 -> "Conflict"
      [] status_code = 500 -> "InternalServerError"
      [] OTHER -> "Success"

(***************************************************************************)
(* Foreign keys (db_models.py): an INSERT whose student_id or lesson_id    *)
(* references no row makes db.commit() raise IntegrityError, which no      *)
(* handler catches: the request ends 500 and the transaction is dropped.   *)
(***************************************************************************)
CompletionForeignKeys(student_id, lesson_id) ==
    UserById(student_id) # {} /\ LessonById(lesson_id) # {}

QuizResultForeignKeys(lesson_id, student_id) ==
    LessonById(lesson_id) # {} /\ UserById(student_id) # {}

CompletionRow(student_id, lesson_id) ==
    [student_id |-> student_id, lesson_id |-> lesson_id]

(***************************************************************************)
(* Lessons.                                                                *)
(***************************************************************************)
create_lesson(course_id, lesson_type, content) ==
    /\ seq.lessons < MaxLessonId
    /\ IF CourseById(course_id) = {}
       THEN /\ resp' = Response("create_lesson", [course_id |-> course_id], 404,
                                [detail |-> "Curso no encontrado"])
            /\ UNCHANGED <<lessons, seq>>
       ELSE LET id == seq.lessons + 1 IN
            /\ lessons' = lessons \cup
                   {[id |-> id, course_id |-> course_id,
                     lesson_type |-> lesson_type, content |-> content]}
            /\ seq' = [seq EXCEPT !.lessons = id]
            /\ resp' = Response("create_lesson", [course_id |-> course_id], 200,
                                [id |-> id])
    /\ UNCHANGED <<users, adminVars, evalVars,
                   courses, completions, quiz_results, enrollments,
                   messages, now, pc>>

\* update_lesson copies title, lesson_type, content and order; never course_id
update_lesson(lesson_id, lesson_type, content) ==
    /\ IF LessonById(lesson_id) = {}
       THEN /\ resp' = Response("update_lesson", [lesson_id |-> lesson_id], 404,
                                [detail |-> "Leccion no encontrada"])
            /\ UNCHANGED lessons
       ELSE /\ lessons' =
                 {IF l.id = lesson_id
                  THEN [l EXCEPT !.lesson_type = lesson_type, !.content = content]
                  ELSE l : l \in lessons}
            /\ resp' = Response("update_lesson", [lesson_id |-> lesson_id], 200,
                                [id |-> lesson_id])
    /\ UNCHANGED <<users, adminVars, evalVars,
                   courses, completions, quiz_results, enrollments,
                   messages, seq, now, pc>>

\* mutant: deleting a lesson leaves its completions and quiz results
LessonCascade_Kept(B, lesson_ids) == B

\* mutant: the rows of the deleted lessons stay and the other rows go
LessonCascade_Inverted(B, lesson_ids) ==
    BagSelect(B, {r \in DOMAIN B : r.lesson_id \in lesson_ids})

\* Lesson.completions and Lesson.quiz_results: cascade="all, delete-orphan"
LessonCascade(B, lesson_ids) ==
    BagSelect(B, {r \in DOMAIN B : r.lesson_id \notin lesson_ids})

delete_lesson(lesson_id) ==
    /\ IF LessonById(lesson_id) = {}
       THEN /\ resp' = Response("delete_lesson", [lesson_id |-> lesson_id], 404,
                                [detail |-> "Leccion no encontrada"])
            /\ UNCHANGED <<lessons, completions, quiz_results>>
       ELSE /\ lessons' = lessons \ LessonById(lesson_id)
            /\ completions' = LessonCascade(completions, {lesson_id})
            /\ quiz_results' = LessonCascade(quiz_results, {lesson_id})
            /\ resp' = Response("delete_lesson", [lesson_id |-> lesson_id], 200,
                                [message |-> "Leccion eliminada"])
    /\ UNCHANGED <<users, adminVars, evalVars,
                   courses, enrollments, messages, seq, now, pc>>

(***************************************************************************)
(* complete_lesson.  CompleteLesson is the handler's result on the current *)
(* database: submit_quiz awaits it inside its own request.                 *)
(***************************************************************************)
\* mutant: the completion is inserted without looking for an existing one
CompleteLesson_AlwaysInsert(lesson_id, student_id) ==
    IF LessonById(lesson_id) = {}
    THEN [status |-> 404, body |-> [detail |-> "Leccion no encontrada"],
          completions |-> completions]
    ELSE IF ~CompletionForeignKeys(student_id, lesson_id)
    THEN [status |-> 500, body |-> [detail |-> "IntegrityError"],
          completions |-> completions]
    ELSE [status |-> 200, body |-> [message |-> "Leccion completada"],
          completions |->
              completions (+) SetToBag({CompletionRow(student_id, lesson_id)})]

CompleteLesson(lesson_id, student_id) ==
    IF LessonById(lesson_id) = {}
    THEN [status |-> 404, body |-> [detail |-> "Leccion no encontrada"],
          completions |-> completions]
    ELSE IF ExistingCompletion(lesson_id, student_id) # {}
    THEN [status |-> 200, body |-> [message |-> "Leccion ya completada"],
          completions |-> completions]
    ELSE IF ~CompletionForeignKeys(student_id, lesson_id)
    THEN [status |-> 500, body |-> [detail |-> "IntegrityError"],
          completions |-> completions]
    ELSE [status |-> 200, body |-> [message |-> "Leccion completada"],
          completions |->
              completions (+) SetToBag({CompletionRow(student_id, lesson_id)})]

complete_lesson(lesson_id, student_id) ==
    LET r == CompleteLesson(lesson_id, student_id) IN
    /\ completions' = r.completions
    /\ resp' = Response("complete_lesson",
                        [lesson_id |-> lesson_id, student_id |-> student_id],
                        r.status, r.body)
    /\ UNCHANGED <<users, adminVars, evalVars,
                   courses, lessons, quiz_results, enrollments,
                   messages, seq, now, pc>>

(***************************************************************************)
(* submit_quiz.                                                            *)
(***************************************************************************)
\* the grading loop from its i-th iteration on (enumerate counts from 0,
\* sequences from 1): one point when i is inside the question list and the
\* submitted index is the question's correct_answer
RECURSIVE GradeFrom(_, _, _)
GradeFrom(questions, answers, i) ==
    IF i > Len(answers)
    THEN 0
    ELSE (IF i <= Len(questions) /\ questions[i] = answers[i] THEN 1 ELSE 0)
         + GradeFrom(questions, answers, i + 1)

\* mutant: an answer past the last question earns a point
CorrectAnswers_ExtraCount(questions, answers) ==
    GradeFrom(questions, answers, 1)
    + (IF Len(answers) > Len(questions) THEN Len(answers) - Len(questions) ELSE 0)

CorrectAnswers(questions, answers) == GradeFrom(questions, answers, 1)

\* mutant: the ratio is stored, not the percentage
QuizScore_Ratio(correct, questions) ==
    IF Len(questions) > 0 THEN Rat(correct, Len(questions)) ELSE Rat(0, 1)

\* score = (correct / len(questions)) * 100 if questions else 0
QuizScore(correct, questions) ==
    IF Len(questions) > 0 THEN Rat(correct * 100, Len(questions)) ELSE Rat(0, 1)

\* mutant: the kind of the lesson is not checked
IsQuiz_Unchecked(lesson) == TRUE

\* lesson.lesson_type != LessonTypeEnum.QUIZ raises 400
IsQuiz(lesson) == lesson.lesson_type = "quiz"

QuizResultRow(lesson_id, student_id, questions, answers) ==
    LET correct == CorrectAnswers(questions, answers) IN
    [lesson_id |-> lesson_id, student_id |-> student_id,
     score |-> QuizScore(correct, questions),
     total_questions |-> Len(questions), correct_answers |-> correct]

submit_quiz(lesson_id, answers, student_id) ==
    LET args == [lesson_id |-> lesson_id, student_id |-> student_id,
                 answers |-> answers]
        found == LessonById(lesson_id)
    IN
    /\ IF found = {}
       THEN /\ resp' = Response("submit_quiz", args, 404,
                                [detail |-> "Quiz no encontrado"])
            /\ UNCHANGED <<quiz_results, completions>>
       ELSE LET lesson == CHOOSE l \in found : TRUE IN
            IF ~IsQuiz(lesson)
            THEN /\ resp' = Response("submit_quiz", args, 400,
                                     [detail |-> "Esta leccion no es un quiz"])
                 /\ UNCHANGED <<quiz_results, completions>>
            ELSE IF ~lesson.content.json
            THEN \* json.loads raises JSONDecodeError
                 /\ resp' = Response("submit_quiz", args, 500,
                                     [detail |-> "JSONDecodeError"])
                 /\ UNCHANGED <<quiz_results, completions>>
            ELSE IF ~QuizResultForeignKeys(lesson_id, student_id)
            THEN /\ resp' = Response("submit_quiz", args, 500,
                                     [detail |-> "IntegrityError"])
                 /\ UNCHANGED <<quiz_results, completions>>
            ELSE LET row == QuizResultRow(lesson_id, student_id,
                                          lesson.content.questions, answers)
                     done == CompleteLesson(lesson_id, student_id)
                 IN
                 /\ BagCardinality(quiz_results) < MaxQuizResults
                 /\ quiz_results' = quiz_results (+) SetToBag({row})
                 /\ completions' = done.completions
                 /\ resp' = IF done.status = 200
                            THEN Response("submit_quiz", args, 200, [result |-> row])
                            ELSE Response("submit_quiz", args, done.status, done.body)
    /\ UNCHANGED <<users, adminVars, evalVars,
                   courses, lessons, enrollments, messages, seq, now, pc>>

(***************************************************************************)
(* Enrollments.                                                            *)
(***************************************************************************)
create_enrollment(student_id, course_id) ==
    LET args == [student_id |-> student_id, course_id |-> course_id] IN
    /\ IF UserById(student_id) = {}
       THEN /\ resp' = Response("create_enrollment", args, 404,
                                [detail |-> "Estudiante no encontrado"])
            /\ UNCHANGED <<enrollments, seq>>
       ELSE IF CourseById(course_id) = {}
       THEN /\ resp' = Response("create_enrollment", args, 404,
                                [detail |-> "Curso no encontrado"])
            /\ UNCHANGED <<enrollments, seq>>
       ELSE IF ExistingEnrollment(student_id, course_id) # {}
       THEN /\ resp' = Response("create_enrollment", args, 400,
                                [detail |-> "Estudiante ya inscrito en este curso"])
            /\ UNCHANGED <<enrollments, seq>>
       ELSE LET id == seq.enrollments + 1 IN
            /\ seq.enrollments < MaxEnrollmentId
            /\ enrollments' = enrollments \cup
                   {[id |-> id, student_id |-> student_id, course_id |-> course_id]}
            /\ seq' = [seq EXCEPT !.enrollments = id]
            /\ resp' = Response("create_enrollment", args, 200, [id |-> id])
    /\ UNCHANGED <<users, adminVars, evalVars,
                   courses, lessons, completions, quiz_results,
                   messages, now, pc>>

delete_enrollment(enrollment_id) ==
    LET found == {e \in enrollments : e.id = enrollment_id} IN
    /\ IF found = {}
       THEN /\ resp' = Response("delete_enrollment",
                                [enrollment_id |-> enrollment_id], 404,
                                [detail |-> "Inscripcion no encontrada"])
            /\ UNCHANGED enrollments
       ELSE /\ enrollments' = enrollments \ found
            /\ resp' = Response("delete_enrollment",
                                [enrollment_id |-> enrollment_id], 200,
                                [message |-> "Inscripcion eliminada"])
    /\ UNCHANGED <<users, adminVars, evalVars,
                   courses, lessons, completions, quiz_results,
                   messages, seq, now, pc>>

(***************************************************************************)
(* delete_course.  Course.lessons, Course.enrollments and                  *)
(* Course.evaluations cascade ("all, delete-orphan"), and each deleted     *)
(* lesson and evaluation cascades in turn.                                 *)
(***************************************************************************)
\* mutant: the rows that belong to the deleted course are left in place
CourseCascade_Kept(rows, course_id) == rows

\* the rows of a child table left by cascade="all, delete-orphan" on the
\* relationship of Course
CourseCascade(rows, course_id) == {r \in rows : r.course_id # course_id}

\* the submissions left by the cascade of Evaluation.submissions
EvaluationCascade(rows, evaluation_ids) ==
    {r \in rows : r.evaluation_id \notin evaluation_ids}

\* Course.calendar_events has no delete cascade and calendar_events.course_id
\* is nullable: the events of a deleted course stay, without a course
CourseDetached(events, course_id) ==
    {IF e.course_id = Some(course_id) THEN [e EXCEPT !.course_id = None] ELSE e :
        e \in events}

delete_course(course_id) ==
    /\ IF CourseById(course_id) = {}
       THEN /\ resp' = Response("delete_course", [course_id |-> course_id], 404,
                                [detail |-> "Curso no encontrado"])
            /\ UNCHANGED <<learnVars, evalVars, calendar_events>>
       ELSE LET gone == {l.id : l \in {x \in lessons : x.course_id = course_id}}
                graded == {e.id : e \in {x \in evaluations : x.course_id = course_id}}
            IN
            /\ courses' = courses \ CourseById(course_id)
            /\ lessons' = CourseCascade(lessons, course_id)
            /\ enrollments' = CourseCascade(enrollments, course_id)
            /\ evaluations' = CourseCascade(evaluations, course_id)
            /\ completions' = LessonCascade(completions, gone)
            /\ quiz_results' = LessonCascade(quiz_results, gone)
            /\ submissions' = EvaluationCascade(submissions, graded)
            /\ calendar_events' = CourseDetached(calendar_events, course_id)
            /\ resp' = Response("delete_course", [course_id |-> course_id], 200,
                                [message |-> "Curso eliminado"])
    /\ UNCHANGED <<users, links, site_content_db, applications_db,
                   application_counter, messages, seq, now, pc>>

(***************************************************************************)
(* get_student_progress.                                                   *)
(***************************************************************************)
\* rows in the order a query without ORDER BY returns them here: by id
RECURSIVE RowsById(_)
RowsById(S) ==
    IF S = {}
    THEN <<>>
    ELSE LET first == CHOOSE r \in S : \A q \in S : r.id <= q.id
         IN <<first>> \o RowsById(S \ {first})

\* sum(r.score for r in quiz_results)
RECURSIVE ScoreSum(_)
ScoreSum(B) ==
    IF DOMAIN B = {}
    THEN Rat(0, 1)
    ELSE LET r == CHOOSE x \in DOMAIN B : TRUE
         IN RatAdd(r.score, ScoreSum(B (-) SetToBag({r})))

\* mutant: every lesson of the course counts as a quiz
QuizLessonIds_AnyKind(course_lessons) == {l.id : l \in course_lessons}

\* quiz_lesson_ids = [l.id for l in lessons if l.lesson_type == QUIZ]
QuizLessonIds(course_lessons) ==
    {l.id : l \in {x \in course_lessons : x.lesson_type = "quiz"}}

\* avg_quiz = sum(scores) / len(quiz_results) if quiz_results else None
AverageQuizScore(results) ==
    IF BagCardinality(results) > 0
    THEN Some(RatDiv(ScoreSum(results), BagCardinality(results)))
    ELSE None

\* completed = count of the student's completion rows on the course's lessons
CompletedLessons(student_id, lesson_ids) ==
    BagCardinality(BagSelect(completions,
        {c \in DOMAIN completions :
            c.student_id = student_id /\ c.lesson_id \in lesson_ids}))

\* completed_evals = count of the student's submission rows on the
\* course's evaluations
CompletedEvaluations(student_id, eval_ids) ==
    Cardinality({x \in submissions :
        x.student_id = student_id /\ x.evaluation_id \in eval_ids})

\* the body of the loop over the student's enrollments, for one course
CourseProgress(student_id, course) ==
    LET course_lessons == {l \in lessons : l.course_id = course.id}
        lesson_ids == {l.id : l \in course_lessons}
        quiz_lesson_ids == QuizLessonIds(course_lessons)
        results == BagSelect(quiz_results,
            {r \in DOMAIN quiz_results :
                r.student_id = student_id /\ r.lesson_id \in quiz_lesson_ids})
        eval_ids == {e.id : e \in {x \in evaluations : x.course_id = course.id}}
    IN [student_id |-> student_id,
        course_id |-> course.id,
        completed_lessons |-> CompletedLessons(student_id, lesson_ids),
        total_lessons |-> Cardinality(course_lessons),
        average_quiz_score |-> AverageQuizScore(results),
        evaluations_completed |-> CompletedEvaluations(student_id, eval_ids),
        total_evaluations |-> Cardinality(eval_ids)]

RECURSIVE ProgressList(_, _)
ProgressList(student_id, rows) ==
    IF rows = <<>>
    THEN <<>>
    ELSE LET course == CourseById(Head(rows).course_id)
             rest == ProgressList(student_id, Tail(rows))
         IN IF course = {}
            THEN rest
            ELSE <<CourseProgress(student_id, CHOOSE c \in course : TRUE)>> \o rest

StudentProgress(student_id) ==
    IF UserById(student_id) = {}
    THEN [status |-> 404, body |-> [detail |-> "Estudiante no encontrado"]]
    ELSE [status |-> 200,
          body |-> [progress |->
              ProgressList(student_id,
                  RowsById({e \in enrollments : e.student_id = student_id}))]]

get_student_progress(student_id) ==
    LET r == StudentProgress(student_id) IN
    /\ resp' = Response("get_student_progress", [student_id |-> student_id],
                        r.status, r.body)
    /\ UNCHANGED <<users, adminVars, evalVars,
                   courses, lessons, completions, quiz_results,
                   enrollments, messages, seq, now, pc>>

(***************************************************************************)
(* Requests served one at a time (one worker process: every handler is an  *)
(* "async def" without a suspension point, so it runs to its end).         *)
(* Spec: lessons, completions and quiz submissions of one student.         *)
(***************************************************************************)

\* lesson ids still to be issued
NewLessonArgs == 4..MaxLessonId

\* lesson_id of a completion: the seeded quiz and the new lessons
LessonArgs == {3} \cup NewLessonArgs

AnswerArgs == UNION {[1..n -> {0, 1}] : n \in 0..MaxAnswers}

\* quizzes a create_lesson request may carry: no question, one question
LessonBodyArgs ==
    { [lesson_type |-> "quiz", content |-> QuizContent(<<>>)],
      [lesson_type |-> "quiz", content |-> QuizContent(<<0>>)] }

Next ==
    \/ \E c \in {1, 4}, b \in LessonBodyArgs :
          create_lesson(c, b.lesson_type, b.content)
    \/ \E l \in NewLessonArgs : delete_lesson(l)
    \/ \E l \in LessonArgs, s \in {5, 8} : complete_lesson(l, s)
    \/ \E l \in ({1} \cup LessonArgs), a \in AnswerArgs : submit_quiz(l, a, 5)

Spec == Init /\ [][Next]_vars

(***************************************************************************)
(* Properties of complete_lesson and submit_quiz, under Spec.              *)
(***************************************************************************)
Min(a, b) == IF a <= b THEN a ELSE b

\* completion rows for the pair in a lesson_completions table
CompletionsIn(table, lesson_id, student_id) ==
    CopiesIn(CompletionRow(student_id, lesson_id), table)

\* completion rows stored for the pair
CompletionCount(lesson_id, student_id) ==
    CompletionsIn(completions, lesson_id, student_id)

\* quiz results for the pair in a quiz_results table
ResultsIn(table, lesson_id, student_id) ==
    BagCardinality(BagSelect(table,
        {r \in DOMAIN table :
            r.lesson_id = lesson_id /\ r.student_id = student_id}))

\* quiz results stored for the pair
ResultCount(lesson_id, student_id) ==
    ResultsIn(quiz_results, lesson_id, student_id)

\* the request just served was this handler's
Served(op) == resp'.op = op

\* C2: complete_lesson on an existing lesson, for an existing student,
\* reports success and leaves exactly one completion row for the pair; when
\* the pair was already completed the call changes no row (a second call in
\* sequence is such a call).
C2_CompleteLessonIdempotent ==
    [][Served("complete_lesson") =>
        LET l == resp'.args.lesson_id
            s == resp'.args.student_id
        IN (LessonById(l) # {} /\ UserById(s) # {}) =>
              /\ resp'.status = 200
              /\ CompletionsIn(completions', l, s) = 1
              /\ CompletionCount(l, s) = 1 => completions' = completions]_vars

\* a second complete_lesson for a completed pair was served
C2_Witness ==
    /\ resp.op = "complete_lesson"
    /\ resp.status = 200
    /\ resp.body = [message |-> "Leccion ya completada"]
    /\ CompletionCount(resp.args.lesson_id, resp.args.student_id) = 1

\* score = (correct_answers / total_questions) * 100, as exact rationals
ScoreIsPercentage(r) ==
    IF r.total_questions > 0
    THEN r.score.num * r.total_questions = r.correct_answers * 100 * r.score.den
    ELSE r.score.num = 0

\* C3: every stored quiz result, and the result a successful submit_quiz
\* returns, has score = (correct_answers / total_questions) * 100 when
\* total_questions > 0 and score = 0 when the quiz has no question;
\* total_questions is the number of questions of the lesson.
C3_ScoreFormula ==
    /\ \A r \in BagToSet(quiz_results) : ScoreIsPercentage(r)
    /\ (resp.op = "submit_quiz" /\ resp.status = 200) =>
          LET r == resp.body.result
              lesson == CHOOSE l \in lessons : l.id = resp.args.lesson_id
          IN /\ r \in BagToSet(quiz_results)
             /\ r.total_questions = Len(lesson.content.questions)
             /\ ScoreIsPercentage(r)

\* a result on a quiz without questions and a result of 50% are both stored
C3_Witness ==
    /\ \E r \in BagToSet(quiz_results) : r.total_questions = 0 /\ r.score.num = 0
    /\ \E r \in BagToSet(quiz_results) :
          r.total_questions = 2 /\ r.correct_answers = 1 /\ r.score = Rat(50, 1)

\* positions (from 1) inside both lists where the answer is the correct index
MatchingPositions(questions, answers) ==
    {i \in 1..Min(Len(answers), Len(questions)) : answers[i] = questions[i]}

\* C4: the correct_answers of a successful submit_quiz is the number of
\* positions inside both the answers and the questions at which the answer is
\* the question's correct index; every stored result has
\* 0 <= correct_answers <= total_questions and 0 <= score <= 100.
C4_Grading ==
    /\ (resp.op = "submit_quiz" /\ resp.status = 200) =>
          LET lesson == CHOOSE l \in lessons : l.id = resp.args.lesson_id
          IN resp.body.result.correct_answers =
                Cardinality(MatchingPositions(lesson.content.questions,
                                              resp.args.answers))
    /\ \A r \in BagToSet(quiz_results) :
          /\ 0 <= r.correct_answers /\ r.correct_answers <= r.total_questions
          /\ RatLeq(Rat(0, 1), r.score) /\ RatLeq(r.score, Rat(100, 1))

\* a submission with more answers than questions, whose surplus answers would
\* have matched nothing, was graded
C4_Witness ==
    /\ resp.op = "submit_quiz" /\ resp.status = 200
    /\ Len(resp.args.answers) > resp.body.result.total_questions
    /\ resp.body.result.total_questions > 0
    /\ resp.body.result.correct_answers = resp.body.result.total_questions

\* C5: submit_quiz on an existing lesson that is no quiz fails with 400
\* (BadRequest) and creates neither a quiz result nor a completion.
C5_NotAQuiz ==
    [][Served("submit_quiz") =>
        \A lesson \in LessonById(resp'.args.lesson_id) :
            lesson.lesson_type # "quiz" =>
                /\ resp'.status = 400
                /\ ErrorKind(resp'.status) = "BadRequest"
                /\ quiz_results' = quiz_results
                /\ completions' = completions]_vars

\* a submission to the seeded text lesson was refused
C5_Witness ==
    /\ resp.op = "submit_quiz" /\ resp.status = 400
    /\ \E l \in lessons : l.id = resp.args.lesson_id /\ l.lesson_type = "text"

\* C6: a successful submit_quiz adds exactly one quiz result for its
\* (student, lesson) and leaves exactly one completion row for the pair,
\* whether or not one existed before.
C6_SubmitCompletesOnce ==
    [][(Served("submit_quiz") /\ resp'.status = 200) =>
        LET l == resp'.args.lesson_id
            s == resp'.args.student_id
        IN /\ ResultsIn(quiz_results', l, s) = ResultCount(l, s) + 1
           /\ CompletionsIn(completions', l, s) = 1]_vars

\* two submissions by one student to one quiz: two results, one completion
C6_Witness ==
    /\ resp.op = "submit_quiz" /\ resp.status = 200
    /\ ResultCount(resp.args.lesson_id, resp.args.student_id) = 2
    /\ CompletionCount(resp.args.lesson_id, resp.args.student_id) = 1

(***************************************************************************)
(* SpecEnroll: enrollments and course deletion, one request at a time.     *)
(***************************************************************************)

EnrollmentArgs == 1..MaxEnrollmentId

NextEnroll ==
    \/ \E s \in {5, 6, 8}, c \in {1, 2, 3, 4} : create_enrollment(s, c)
    \/ \E e \in EnrollmentArgs : delete_enrollment(e)
    \/ \E c \in {1, 2, 3, 4} : delete_course(c)

SpecEnroll == Init /\ [][NextEnroll]_vars

\* enrollment rows of a table for the pair
EnrollmentsIn(table, student_id, course_id) ==
    {e \in table : e.student_id = student_id /\ e.course_id = course_id}

\* what create_enrollment does for a pair that is already enrolled: it
\* answers status 400, which is BadRequest, the enrollments are unchanged
\* and, requests being served one at a time, the pair keeps its one row
DuplicateEnrollmentRefused ==
    [][Served("create_enrollment") =>
        LET s == resp'.args.student_id
            c == resp'.args.course_id
        IN EnrollmentsIn(enrollments, s, c) # {} =>
              /\ resp'.status = 400
              /\ ErrorKind(resp'.status) = "BadRequest"
              /\ enrollments' = enrollments
              /\ Cardinality(EnrollmentsIn(enrollments', s, c)) = 1]_vars

\* C1 as claimed: when an enrollment for the pair exists, a further
\* create_enrollment for the pair fails with Conflict, and the number of
\* stored enrollments of the pair remains 1.
C1_DuplicateEnrollmentConflict ==
    [][Served("create_enrollment") =>
        LET s == resp'.args.student_id
            c == resp'.args.course_id
        IN EnrollmentsIn(enrollments, s, c) # {} =>
              /\ ErrorKind(resp'.status) = "Conflict"
              /\ Cardinality(EnrollmentsIn(enrollments', s, c)) = 1]_vars

\* a pair enrolled by a request (not by the seed) was refused a second time
DuplicateEnrollmentReached ==
    /\ resp.op = "create_enrollment" /\ resp.status = 400
    /\ \E e \in enrollments :
          /\ e.id > 4
          /\ e.student_id = resp.args.student_id
          /\ e.course_id = resp.args.course_id

(***************************************************************************)
(* SpecProgress: quiz submissions of two students on two courses, and the  *)
(* progress report, one request at a time.                                 *)
(***************************************************************************)

\* lesson_id: the seeded quiz and the ids still to be issued
ProgressLessonArgs == {3} \cup (4..MaxLessonId)

NextProgress ==
    \/ create_lesson(2, "quiz", QuizContent(<<1>>))
    \/ update_lesson(3, "text", NotJson)
    \/ update_lesson(3, "quiz", QuizContent(<<1, 1>>))
    \/ \E l \in ProgressLessonArgs : delete_lesson(l)
    \/ \E l \in ProgressLessonArgs, a \in {<<0, 0>>, <<1, 0>>, <<1, 1>>},
          s \in {5, 6} : submit_quiz(l, a, s)
    \/ \E s \in {5, 6} \cup {8} : get_student_progress(s)

SpecProgress == Init /\ [][NextProgress]_vars

\* the student's quiz results on lessons of the course that are quizzes now
CourseQuizResults(student_id, course_id) ==
    BagSelect(quiz_results,
        {r \in DOMAIN quiz_results :
            /\ r.student_id = student_id
            /\ \E l \in lessons :
                  l.id = r.lesson_id /\ l.course_id = course_id
                  /\ l.lesson_type = "quiz"})

\* sum over the rows of B of copies * score * 600, an integer for every
\* score whose denominator divides 6
RECURSIVE ScaledScoreSum(_, _)
ScaledScoreSum(B, rows) ==
    IF rows = {}
    THEN 0
    ELSE LET r == CHOOSE x \in rows : TRUE
         IN B[r] * ((r.score.num * 600) \div r.score.den)
            + ScaledScoreSum(B, rows \ {r})

\* average is the arithmetic mean of the scores of B, None when B is empty
IsMeanOf(average, B) ==
    IF BagCardinality(B) = 0
    THEN average = None
    ELSE /\ average.none = FALSE
         /\ \A r \in DOMAIN B : 600 % r.score.den = 0
         /\ average.value.num * BagCardinality(B) * 600
               = ScaledScoreSum(B, DOMAIN B) * average.value.den

\* every record of a progress list carries the mean of the student's results
MeansIn(student_id, progress) ==
    \A i \in 1..Len(progress) :
        IsMeanOf(progress[i].average_quiz_score,
                 CourseQuizResults(student_id, progress[i].course_id))

\* C8: in every progress record, average_quiz_score is the arithmetic mean
\* of the student's quiz-result scores on the lessons of that course that
\* are of kind quiz now, and None (not 0) when there is no such result.
C8_AverageQuizScore ==
    /\ \A u \in users : MeansIn(u.id, StudentProgress(u.id).body.progress)
    /\ (resp.op = "get_student_progress" /\ resp.status = 200) =>
          MeansIn(resp.args.student_id, resp.body.progress)

\* a report of 75%, the mean of a 50% and a 100% result, next to a course
\* without result reported as None
C8_Witness ==
    /\ resp.op = "get_student_progress" /\ resp.status = 200
    /\ \E i, j \in 1..Len(resp.body.progress) :
          /\ resp.body.progress[i].average_quiz_score = Some(Rat(75, 1))
          /\ resp.body.progress[j].average_quiz_score = None

(***************************************************************************)
(* SpecConc: requests of several worker processes on one database.  A      *)
(* request is a sequence of SQL statements, each of which reads or writes  *)
(* the committed state (no handler takes a lock, and no table declares a   *)
(* unique constraint besides users.email); statements of different         *)
(* requests interleave.  Every request is split at its statements: a       *)
(* SELECT, the flush of db.commit(), the SELECT of db.refresh() or of the  *)
(* reload of an object the commit expired.  pc[w] holds what worker w has  *)
(* read so far.                                                            *)
(***************************************************************************)
\* complete_lesson: the SELECT of the lesson
complete_lesson_select(w, lesson_id, student_id) ==
    LET args == [lesson_id |-> lesson_id, student_id |-> student_id] IN
    /\ pc[w] = Idle
    /\ IF LessonById(lesson_id) = {}
       THEN /\ resp' = Response("complete_lesson", args, 404,
                                [detail |-> "Leccion no encontrada"])
            /\ UNCHANGED pc
       ELSE /\ pc' = [pc EXCEPT ![w] =
                         [at |-> "complete_lesson_existing",
                          caller |-> "complete_lesson", args |-> args,
                          row |-> None]]
            /\ UNCHANGED resp
    /\ UNCHANGED <<users, adminVars, evalVars,
                   courses, lessons, completions, quiz_results,
                   enrollments, messages, seq, now>>

\* complete_lesson: the SELECT of the existing completion and "if
\* existing", for complete_lesson itself or for submit_quiz awaiting it
\* (db_result, refreshed and not expired since, is read without a query)
complete_lesson_existing(w) ==
    LET args == pc[w].args IN
    /\ pc[w].at = "complete_lesson_existing"
    /\ IF ExistingCompletion(args.lesson_id, args.student_id) # {}
       THEN /\ resp' =
                 IF pc[w].caller = "complete_lesson"
                 THEN Response("complete_lesson", args, 200,
                               [message |-> "Leccion ya completada"])
                 ELSE Response("submit_quiz", args, 200,
                               [result |-> pc[w].row])
            /\ pc' = [pc EXCEPT ![w] = Idle]
       ELSE /\ pc' = [pc EXCEPT ![w].at = "completion_insert"]
            /\ UNCHANGED resp
    /\ UNCHANGED <<users, adminVars, evalVars,
                   courses, lessons, completions, quiz_results,
                   enrollments, messages, seq, now>>

\* db.add(completion); db.commit(): complete_lesson answers, submit_quiz
\* goes on to build its response
completion_insert(w) ==
    LET args == pc[w].args
        ok == CompletionForeignKeys(args.student_id, args.lesson_id)
    IN
    /\ pc[w].at = "completion_insert"
    /\ completions' =
          IF ok
          THEN completions (+)
                   SetToBag({CompletionRow(args.student_id, args.lesson_id)})
          ELSE completions
    /\ IF ~ok
       THEN /\ resp' = Response(pc[w].caller, args, 500,
                                [detail |-> "IntegrityError"])
            /\ pc' = [pc EXCEPT ![w] = Idle]
       ELSE IF pc[w].caller = "complete_lesson"
       THEN /\ resp' = Response("complete_lesson", args, 200,
                                [message |-> "Leccion completada"])
            /\ pc' = [pc EXCEPT ![w] = Idle]
       ELSE /\ pc' = [pc EXCEPT ![w].at = "submit_quiz_reload"]
            /\ UNCHANGED resp
    /\ UNCHANGED <<users, adminVars, evalVars,
                   courses, lessons, quiz_results, enrollments,
                   messages, seq, now>>

\* submit_quiz up to the computed score: the lesson SELECT and the grading
submit_quiz_select(w, lesson_id, answers, student_id) ==
    LET args == [lesson_id |-> lesson_id, student_id |-> student_id,
                 answers |-> answers]
        found == LessonById(lesson_id)
    IN
    /\ pc[w] = Idle
    /\ IF found = {}
       THEN /\ resp' = Response("submit_quiz", args, 404,
                                [detail |-> "Quiz no encontrado"])
            /\ UNCHANGED pc
       ELSE LET lesson == CHOOSE l \in found : TRUE IN
            IF ~IsQuiz(lesson)
            THEN /\ resp' = Response("submit_quiz", args, 400,
                                     [detail |-> "Esta leccion no es un quiz"])
                 /\ UNCHANGED pc
            ELSE IF ~lesson.content.json
            THEN /\ resp' = Response("submit_quiz", args, 500,
                                     [detail |-> "JSONDecodeError"])
                 /\ UNCHANGED pc
            ELSE /\ pc' = [pc EXCEPT ![w] =
                              [at |-> "submit_quiz_insert",
                               caller |-> "submit_quiz", args |-> args,
                               row |-> QuizResultRow(lesson_id, student_id,
                                           lesson.content.questions, answers)]]
                 /\ UNCHANGED resp
    /\ UNCHANGED <<users, adminVars, evalVars,
                   courses, lessons, completions, quiz_results,
                   enrollments, messages, seq, now>>

\* db.add(db_result); db.commit()
submit_quiz_insert(w) ==
    LET args == pc[w].args IN
    /\ pc[w].at = "submit_quiz_insert"
    /\ IF ~QuizResultForeignKeys(args.lesson_id, args.student_id)
       THEN /\ resp' = Response("submit_quiz", args, 500,
                                [detail |-> "IntegrityError"])
            /\ pc' = [pc EXCEPT ![w] = Idle]
            /\ UNCHANGED quiz_results
       ELSE /\ BagCardinality(quiz_results) < MaxQuizResults
            /\ quiz_results' = quiz_results (+) SetToBag({pc[w].row})
            /\ pc' = [pc EXCEPT ![w].at = "submit_quiz_refresh"]
            /\ UNCHANGED resp
    /\ UNCHANGED <<users, adminVars, evalVars,
                   courses, lessons, completions, enrollments,
                   messages, seq, now>>

\* db.refresh(db_result): the SELECT of the row just committed, which is
\* gone when its lesson was deleted since
submit_quiz_refresh(w) ==
    /\ pc[w].at = "submit_quiz_refresh"
    /\ IF BagIn(pc[w].row, quiz_results)
       THEN /\ pc' = [pc EXCEPT ![w].at = "submit_quiz_complete"]
            /\ UNCHANGED resp
       ELSE /\ resp' = Response("submit_quiz", pc[w].args, 500,
                                [detail |-> "InvalidRequestError"])
            /\ pc' = [pc EXCEPT ![w] = Idle]
    /\ UNCHANGED <<users, adminVars, evalVars,
                   courses, lessons, completions, quiz_results,
                   enrollments, messages, seq, now>>

\* await complete_lesson(...): its SELECT of the lesson; an HTTPException
\* it raises ends submit_quiz
submit_quiz_complete(w) ==
    /\ pc[w].at = "submit_quiz_complete"
    /\ IF LessonById(pc[w].args.lesson_id) = {}
       THEN /\ resp' = Response("submit_quiz", pc[w].args, 404,
                                [detail |-> "Leccion no encontrada"])
            /\ pc' = [pc EXCEPT ![w] = Idle]
       ELSE /\ pc' = [pc EXCEPT ![w].at = "complete_lesson_existing"]
            /\ UNCHANGED resp
    /\ UNCHANGED <<users, adminVars, evalVars,
                   courses, lessons, completions, quiz_results,
                   enrollments, messages, seq, now>>

\* QuizResultSchema(id=db_result.id, ...): the commit of the completion
\* expired db_result, reading it is a SELECT of its row
submit_quiz_reload(w) ==
    /\ pc[w].at = "submit_quiz_reload"
    /\ resp' =
          IF BagIn(pc[w].row, quiz_results)
          THEN Response("submit_quiz", pc[w].args, 200, [result |-> pc[w].row])
          ELSE Response("submit_quiz", pc[w].args, 500,
                        [detail |-> "ObjectDeletedError"])
    /\ pc' = [pc EXCEPT ![w] = Idle]
    /\ UNCHANGED <<users, adminVars, evalVars,
                   courses, lessons, completions, quiz_results,
                   enrollments, messages, seq, now>>

\* the rows of a bag that reference a lesson
OfLesson(B, lesson_id) ==
    BagSelect(B, {r \in DOMAIN B : r.lesson_id = lesson_id})

\* delete_lesson: the SELECT of the lesson
delete_lesson_select(w, lesson_id) ==
    LET args == [lesson_id |-> lesson_id] IN
    /\ pc[w] = Idle
    /\ IF LessonById(lesson_id) = {}
       THEN /\ resp' = Response("delete_lesson", args, 404,
                                [detail |-> "Leccion no encontrada"])
            /\ UNCHANGED pc
       ELSE /\ pc' = [pc EXCEPT ![w] =
                         [at |-> "delete_lesson_completions", args |-> args,
                          completions |-> EmptyBag,
                          quiz_results |-> EmptyBag]]
            /\ UNCHANGED resp
    /\ UNCHANGED <<users, adminVars, evalVars,
                   courses, lessons, completions, quiz_results,
                   enrollments, messages, seq, now>>

\* db.delete(lesson): the cascade loads Lesson.completions
delete_lesson_completions(w) ==
    /\ pc[w].at = "delete_lesson_completions"
    /\ pc' = [pc EXCEPT ![w] =
                 [pc[w] EXCEPT
                     !.at = "delete_lesson_results",
                     !.completions =
                         OfLesson(completions, pc[w].args.lesson_id)]]
    /\ UNCHANGED <<users, adminVars, evalVars,
                   courses, lessons, completions, quiz_results,
                   enrollments, messages, seq, now, resp>>

\* db.delete(lesson): the cascade loads Lesson.quiz_results
delete_lesson_results(w) ==
    /\ pc[w].at = "delete_lesson_results"
    /\ pc' = [pc EXCEPT ![w] =
                 [pc[w] EXCEPT
                     !.at = "delete_lesson_flush",
                     !.quiz_results =
                         OfLesson(quiz_results, pc[w].args.lesson_id)]]
    /\ UNCHANGED <<users, adminVars, evalVars,
                   courses, lessons, completions, quiz_results,
                   enrollments, messages, seq, now, resp>>

\* db.commit(): DELETE of the rows the cascade loaded, then of the lesson.
\* A row that references the lesson and was stored after the cascade
\* loaded its table is not deleted: the foreign key refuses the DELETE of
\* the lesson and the transaction is dropped.  A DELETE that matches no
\* row (the lesson was deleted meanwhile) raises nothing.
delete_lesson_flush(w) ==
    LET lesson_id == pc[w].args.lesson_id IN
    /\ pc[w].at = "delete_lesson_flush"
    /\ IF LessonById(lesson_id) = {}
       THEN /\ resp' = Response("delete_lesson", pc[w].args, 200,
                                [message |-> "Leccion eliminada"])
            /\ UNCHANGED <<lessons, completions, quiz_results>>
       ELSE IF \/ OfLesson(completions, lesson_id) # pc[w].completions
               \/ OfLesson(quiz_results, lesson_id) # pc[w].quiz_results
       THEN /\ resp' = Response("delete_lesson", pc[w].args, 500,
                                [detail |-> "IntegrityError"])
            /\ UNCHANGED <<lessons, completions, quiz_results>>
       ELSE /\ lessons' = lessons \ LessonById(lesson_id)
            /\ completions' = LessonCascade(completions, {lesson_id})
            /\ quiz_results' = LessonCascade(quiz_results, {lesson_id})
            /\ resp' = Response("delete_lesson", pc[w].args, 200,
                                [message |-> "Leccion eliminada"])
    /\ pc' = [pc EXCEPT ![w] = Idle]
    /\ UNCHANGED <<users, adminVars, evalVars,
                   courses, enrollments, messages, seq, now>>

\* get_student_progress: the SELECT of the student
get_student_progress_select(w, student_id) ==
    LET args == [student_id |-> student_id] IN
    /\ pc[w] = Idle
    /\ IF UserById(student_id) = {}
       THEN /\ resp' = Response("get_student_progress", args, 404,
                                [detail |-> "Estudiante no encontrado"])
            /\ UNCHANGED pc
       ELSE /\ pc' = [pc EXCEPT ![w] =
                         [at |-> "progress_enrollments", args |-> args,
                          rows |-> <<>>, index |-> 1, progress |-> <<>>,
                          record |-> None, lessons |-> {}, eval_ids |-> {}]]
            /\ UNCHANGED resp
    /\ UNCHANGED <<users, adminVars, evalVars,
                   courses, lessons, completions, quiz_results,
                   enrollments, messages, seq, now>>

\* "for enrollment in enrollments": worker w goes to the enrollment row at
\* index, or returns progress_list when the rows are used up
NextEnrollment(w, rows, index, progress) ==
    IF index > Len(rows)
    THEN /\ resp' = Response("get_student_progress", pc[w].args, 200,
                             [progress |-> progress])
         /\ pc' = [pc EXCEPT ![w] = Idle]
    ELSE /\ pc' = [pc EXCEPT ![w] =
                      [pc[w] EXCEPT !.at = "progress_course",
                                    !.rows = rows, !.index = index,
                                    !.progress = progress]]
         /\ UNCHANGED resp

\* the SELECT of the student's enrollments
progress_enrollments(w) ==
    /\ pc[w].at = "progress_enrollments"
    /\ NextEnrollment(w, RowsById({e \in enrollments :
                             e.student_id = pc[w].args.student_id}), 1, <<>>)
    /\ UNCHANGED <<users, adminVars, evalVars,
                   courses, lessons, completions, quiz_results,
                   enrollments, messages, seq, now>>

\* the SELECT of the course of the enrollment; "if not course: continue"
progress_course(w) ==
    LET course_id == pc[w].rows[pc[w].index].course_id IN
    /\ pc[w].at = "progress_course"
    /\ IF CourseById(course_id) = {}
       THEN NextEnrollment(w, pc[w].rows, pc[w].index + 1, pc[w].progress)
       ELSE /\ pc' = [pc EXCEPT ![w] =
                         [pc[w] EXCEPT
                             !.at = "progress_lessons",
                             !.record = [student_id |-> pc[w].args.student_id,
                                         course_id |-> course_id]]]
            /\ UNCHANGED resp
    /\ UNCHANGED <<users, adminVars, evalVars,
                   courses, lessons, completions, quiz_results,
                   enrollments, messages, seq, now>>

\* the SELECT of the lessons of the course.  The session keeps a Lesson
\* object only as long as the handler refers to it, and the handler refers
\* to the lessons through `lessons` alone: a row that is in the list
\* `lessons` is bound to while the SELECT runs (the course before was the
\* same one) comes back as that object, with the attributes it was loaded
\* with; every other row is built from what is stored
progress_lessons(w) ==
    LET selected == {l \in lessons : l.course_id = pc[w].record.course_id}
        course_lessons ==
            {IF \E m \in pc[w].lessons : m.id = l.id
             THEN CHOOSE m \in pc[w].lessons : m.id = l.id
             ELSE l : l \in selected}
    IN
    /\ pc[w].at = "progress_lessons"
    /\ pc' = [pc EXCEPT ![w] =
                 [pc[w] EXCEPT
                     !.at = "progress_completions",
                     !.lessons = course_lessons,
                     !.record = pc[w].record @@
                         [total_lessons |-> Cardinality(course_lessons)]]]
    /\ UNCHANGED <<users, adminVars, evalVars,
                   courses, lessons, completions, quiz_results,
                   enrollments, messages, seq, now, resp>>

\* the count of the student's completions on these lessons (0 without a
\* query when the course has no lesson)
progress_completions(w) ==
    /\ pc[w].at = "progress_completions"
    /\ pc' = [pc EXCEPT ![w] =
                 [pc[w] EXCEPT
                     !.at = "progress_results",
                     !.record = pc[w].record @@
                         [completed_lessons |->
                             CompletedLessons(pc[w].args.student_id,
                                              {l.id : l \in pc[w].lessons})]]]
    /\ UNCHANGED <<users, adminVars, evalVars,
                   courses, lessons, completions, quiz_results,
                   enrollments, messages, seq, now, resp>>

\* the SELECT of the student's results on the quizzes among these lessons
\* ([] without a query when there is no quiz)
progress_results(w) ==
    LET quiz_lesson_ids == QuizLessonIds(pc[w].lessons)
        results == BagSelect(quiz_results,
            {r \in DOMAIN quiz_results :
                /\ r.student_id = pc[w].args.student_id
                /\ r.lesson_id \in quiz_lesson_ids})
    IN
    /\ pc[w].at = "progress_results"
    /\ pc' = [pc EXCEPT ![w] =
                 [pc[w] EXCEPT
                     !.at = "progress_evaluations",
                     !.record = pc[w].record @@
                         [average_quiz_score |-> AverageQuizScore(results)]]]
    /\ UNCHANGED <<users, adminVars, evalVars,
                   courses, lessons, completions, quiz_results,
                   enrollments, messages, seq, now, resp>>

\* the SELECT of the evaluations of the course
progress_evaluations(w) ==
    LET eval_ids == {e.id : e \in {x \in evaluations :
                                      x.course_id = pc[w].record.course_id}}
    IN
    /\ pc[w].at = "progress_evaluations"
    /\ pc' = [pc EXCEPT ![w] =
                 [pc[w] EXCEPT
                     !.at = "progress_submissions",
                     !.eval_ids = eval_ids,
                     !.record = pc[w].record @@
                         [total_evaluations |-> Cardinality(eval_ids)]]]
    /\ UNCHANGED <<users, adminVars, evalVars,
                   courses, lessons, completions, quiz_results,
                   enrollments, messages, seq, now, resp>>

\* the count of the student's submissions to these evaluations (0 without
\* a query when there is none), and progress_list.append(...)
progress_submissions(w) ==
    LET record == pc[w].record @@
                      [evaluations_completed |->
                          CompletedEvaluations(pc[w].args.student_id,
                                               pc[w].eval_ids)]
    IN
    /\ pc[w].at = "progress_submissions"
    /\ NextEnrollment(w, pc[w].rows, pc[w].index + 1,
                      Append(pc[w].progress, record))
    /\ UNCHANGED <<users, adminVars, evalVars,
                   courses, lessons, completions, quiz_results,
                   enrollments, messages, seq, now>>

NextConc ==
    \/ \E w \in Workers : complete_lesson_select(w, 3, 5)
    \/ \E w \in Workers : complete_lesson_existing(w)
    \/ \E w \in Workers : completion_insert(w)
    \/ \E w \in Workers : submit_quiz_select(w, 3, <<1, 1>>, 5)
    \/ \E w \in Workers : submit_quiz_insert(w)
    \/ \E w \in Workers : submit_quiz_refresh(w)
    \/ \E w \in Workers : submit_quiz_complete(w)
    \/ \E w \in Workers : submit_quiz_reload(w)
    \* lesson_id: the lessons of course 1, the seeded quiz the last
    \/ \E w \in Workers, l \in {1, 2, 3} : delete_lesson_select(w, l)
    \/ \E w \in Workers : delete_lesson_completions(w)
    \/ \E w \in Workers : delete_lesson_results(w)
    \/ \E w \in Workers : delete_lesson_flush(w)
    \/ \E w \in Workers : get_student_progress_select(w, 5)
    \/ \E w \in Workers : progress_enrollments(w)
    \/ \E w \in Workers : progress_course(w)
    \/ \E w \in Workers : progress_lessons(w)
    \/ \E w \in Workers : progress_completions(w)
    \/ \E w \in Workers : progress_results(w)
    \/ \E w \in Workers : progress_evaluations(w)
    \/ \E w \in Workers : progress_submissions(w)

SpecConc == Init /\ [][NextConc]_vars

\* C7 as claimed: every record of every student's progress report has
\* completed_lessons <= total_lessons, also when requests interleave.
C7_CompletedWithinTotal ==
    \A u \in users :
        LET progress == StudentProgress(u.id).body.progress IN
        \A i \in 1..Len(progress) :
            progress[i].completed_lessons <= progress[i].total_lessons

(***************************************************************************)
(* Messaging.  Message.created_at defaults to datetime.utcnow, read when   *)
(* the row is inserted: two messages sent between two ticks of the clock   *)
(* carry the same timestamp.                                               *)
(***************************************************************************)
tick ==
    /\ now < MaxTime
    /\ now' = now + 1
    /\ UNCHANGED <<users, adminVars, evalVars,
                   courses, lessons, completions, quiz_results,
                   enrollments, messages, seq, resp, pc>>

send_message(sender_id, receiver_id, content) ==
    LET args == [sender_id |-> sender_id, receiver_id |-> receiver_id] IN
    /\ IF UserById(sender_id) = {}
       THEN /\ resp' = Response("send_message", args, 404,
                                [detail |-> "Remitente no encontrado"])
            /\ UNCHANGED <<messages, seq>>
       ELSE IF UserById(receiver_id) = {}
       THEN /\ resp' = Response("send_message", args, 404,
                                [detail |-> "Destinatario no encontrado"])
            /\ UNCHANGED <<messages, seq>>
       ELSE LET id == seq.messages + 1 IN
            /\ seq.messages < MaxMessages
            /\ messages' = messages \cup
                   {[id |-> id, sender_id |-> sender_id,
                     receiver_id |-> receiver_id, content |-> content,
                     is_read |-> FALSE, created_at |-> now]}
            /\ seq' = [seq EXCEPT !.messages = id]
            /\ resp' = Response("send_message", args, 200, [id |-> id])
    /\ UNCHANGED <<users, adminVars, evalVars,
                   courses, lessons, completions, quiz_results,
                   enrollments, now, pc>>

mark_message_read(message_id) ==
    /\ IF {m \in messages : m.id = message_id} = {}
       THEN /\ resp' = Response("mark_message_read", [message_id |-> message_id],
                                404, [detail |-> "Mensaje no encontrado"])
            /\ UNCHANGED messages
       ELSE /\ messages' = {IF m.id = message_id
                            THEN [m EXCEPT !.is_read = TRUE]
                            ELSE m : m \in messages}
            /\ resp' = Response("mark_message_read", [message_id |-> message_id],
                                200, [message |-> "Mensaje marcado como leido"])
    /\ UNCHANGED <<users, adminVars, evalVars,
                   courses, lessons, completions, quiz_results,
                   enrollments, seq, now, pc>>

\* mutant: the messages of both directions of the exchange are marked
mark_all_read_BothDirections(user_id, other_user_id) ==
    /\ messages' = {IF \/ m.sender_id = other_user_id /\ m.receiver_id = user_id
                       \/ m.sender_id = user_id /\ m.receiver_id = other_user_id
                    THEN [m EXCEPT !.is_read = TRUE]
                    ELSE m : m \in messages}
    /\ resp' = Response("mark_all_read",
                        [user_id |-> user_id, other_user_id |-> other_user_id],
                        200, [message |-> "Mensajes marcados como leidos"])
    /\ UNCHANGED <<users, adminVars, evalVars,
                   courses, lessons, completions, quiz_results,
                   enrollments, seq, now, pc>>

mark_all_read(user_id, other_user_id) ==
    /\ messages' = {IF m.sender_id = other_user_id /\ m.receiver_id = user_id
                    THEN [m EXCEPT !.is_read = TRUE]
                    ELSE m : m \in messages}
    /\ resp' = Response("mark_all_read",
                        [user_id |-> user_id, other_user_id |-> other_user_id],
                        200, [message |-> "Mensajes marcados como leidos"])
    /\ UNCHANGED <<users, adminVars, evalVars,
                   courses, lessons, completions, quiz_results,
                   enrollments, seq, now, pc>>

(***************************************************************************)
(* get_conversations.  The dict "conversations" is a sequence of entries   *)
(* in insertion order, which is the order .values() yields.                *)
(***************************************************************************)
\* the rows of a messages table where the user is sender or receiver
UserMessages(table, user_id) ==
    {m \in table : m.sender_id = user_id \/ m.receiver_id = user_id}

\* the orders in which .all() may return a set of rows (no ORDER BY)
ScanOrders(rows) ==
    {scan \in [1..Cardinality(rows) -> rows] :
        \A i, j \in 1..Cardinality(rows) : i # j => scan[i] # scan[j]}

\* other_id = msg.receiver_id if msg.sender_id == user_id else msg.sender_id
OtherId(msg, user_id) ==
    IF msg.sender_id = user_id THEN msg.receiver_id ELSE msg.sender_id

\* other_id in conversations
HasEntry(conversations, other_id) ==
    \E i \in 1..Len(conversations) : conversations[i].user_id = other_id

\* mutant: a message the user sent counts as unread too
CountsAsUnread_AnyDirection(msg, user_id) == ~msg.is_read

\* msg.receiver_id == user_id and not msg.is_read
CountsAsUnread(msg, user_id) == msg.receiver_id = user_id /\ ~msg.is_read

\* mutant: the comparison is turned around
IsLater_Earlier(msg, entry) == msg.created_at < entry.last_message_time

\* msg.created_at > conversations[other_id]["last_message_time"]
IsLater(msg, entry) == msg.created_at > entry.last_message_time

\* one iteration of "for msg in messages"
ScanMessage(conversations, msg, user_id) ==
    LET other_id == OtherId(msg, user_id)
        other_user == UserById(other_id)
        created ==
            IF ~HasEntry(conversations, other_id) /\ other_user # {}
            THEN Append(conversations,
                        [user_id |-> other_id,
                         user_role |-> (CHOOSE u \in other_user : TRUE).role,
                         last_message |-> msg.content,
                         last_message_time |-> msg.created_at,
                         unread_count |-> 0])
            ELSE conversations
        latest ==
            [i \in 1..Len(created) |->
                IF created[i].user_id = other_id /\ IsLater(msg, created[i])
                THEN [created[i] EXCEPT !.last_message = msg.content,
                                        !.last_message_time = msg.created_at]
                ELSE created[i]]
    IN [i \in 1..Len(latest) |->
           IF latest[i].user_id = other_id /\ CountsAsUnread(msg, user_id)
           THEN [latest[i] EXCEPT !.unread_count = @ + 1]
           ELSE latest[i]]

\* the loop over the scanned messages, from the i-th on
RECURSIVE ScanFrom(_, _, _, _)
ScanFrom(conversations, scan, i, user_id) ==
    IF i > Len(scan)
    THEN conversations
    ELSE ScanFrom(ScanMessage(conversations, scan[i], user_id), scan, i + 1, user_id)

\* entry placed into a list sorted by last_message_time, latest first, behind
\* the entries of the same time (sorted is stable, also with reverse=True)
InsertByTime(sorted, entry) ==
    LET before == {i \in 1..Len(sorted) :
                      sorted[i].last_message_time >= entry.last_message_time}
        k == Cardinality(before)
    IN SubSeq(sorted, 1, k) \o <<entry>> \o SubSeq(sorted, k + 1, Len(sorted))

\* sorted(..., key=lambda x: x.last_message_time, reverse=True)
RECURSIVE SortedByTime(_)
SortedByTime(entries) ==
    IF entries = <<>>
    THEN <<>>
    ELSE InsertByTime(SortedByTime(SubSeq(entries, 1, Len(entries) - 1)),
                      entries[Len(entries)])

\* the list get_conversations returns when .all() yields the rows as scan
Conversations(user_id, scan) ==
    SortedByTime(ScanFrom(<<>>, scan, 1, user_id))

get_conversations(user_id) ==
    /\ IF UserById(user_id) = {}
       THEN resp' = Response("get_conversations", [user_id |-> user_id], 404,
                             [detail |-> "Usuario no encontrado"])
       ELSE \E scan \in ScanOrders(UserMessages(messages, user_id)) :
               resp' = Response("get_conversations", [user_id |-> user_id], 200,
                                [conversations |-> Conversations(user_id, scan)])
    /\ UNCHANGED <<users, adminVars, evalVars,
                   courses, lessons, completions, quiz_results,
                   enrollments, messages, seq, now, pc>>

(***************************************************************************)
(* Messages between a teacher (3) and two students (5, 6), one request at  *)
(* a time.  SpecMsg: messages are sent and read.  SpecConv: messages of    *)
(* different content are sent, none is read.                               *)
(***************************************************************************)
\* (sender_id, receiver_id) of a message; 9 is the id of no user
MessageArgs == {<<3, 5>>, <<5, 3>>, <<5, 6>>, <<5, 5>>, <<5, 9>>, <<9, 5>>}

NextMsg ==
    \/ tick
    \/ \E p \in MessageArgs : send_message(p[1], p[2], "hola")
    \/ \E m \in 1..MaxMessages : mark_message_read(m)
    \/ \E p \in {<<5, 3>>, <<3, 5>>} : mark_all_read(p[1], p[2])
    \/ \E u \in {3, 5, 9} : get_conversations(u)

SpecMsg == Init /\ [][NextMsg]_vars

NextConv ==
    \/ tick
    \/ \E p \in MessageArgs, c \in {"hola", "adios"} : send_message(p[1], p[2], c)
    \/ \E u \in {3, 5, 9} : get_conversations(u)

SpecConv == Init /\ [][NextConv]_vars

(***************************************************************************)
(* Properties of the conversation list: the unread counts under SpecMsg,    *)
(* the last messages and the order under SpecConv.                         *)
(***************************************************************************)
\* the messages of a table exchanged between user u and counterparty c
Exchanged(table, u, c) ==
    {m \in table : \/ m.sender_id = u /\ m.receiver_id = c
                   \/ m.sender_id = c /\ m.receiver_id = u}

\* the number of messages of a table sent by c to u and not read
UnreadFrom(table, c, u) ==
    Cardinality({m \in table : m.sender_id = c /\ m.receiver_id = u /\ ~m.is_read})

\* every list get_conversations can return for user u over a table
AllConversations(table, u) ==
    {Conversations(u, scan) : scan \in ScanOrders(UserMessages(table, u))}

UserIds == {u.id : u \in users}

UnreadCountsRight(table, u, conversations) ==
    \A i \in 1..Len(conversations) :
        conversations[i].unread_count = UnreadFrom(table, conversations[i].user_id, u)

UnreadCountsEverywhere ==
    /\ \A u \in UserIds : \A conversations \in AllConversations(messages, u) :
           UnreadCountsRight(messages, u, conversations)
    /\ resp.op = "get_conversations" /\ resp.status = 200
           => UnreadCountsRight(messages, resp.args.user_id, resp.body.conversations)

MarkReadDropsOne ==
    Served("mark_message_read") /\ now' = now =>
        \A m \in messages :
            m.id = resp'.args.message_id /\ ~m.is_read =>
                /\ resp'.status = 200
                /\ UnreadFrom(messages', m.sender_id, m.receiver_id)
                       = UnreadFrom(messages, m.sender_id, m.receiver_id) - 1
                /\ \A before \in AllConversations(messages, m.receiver_id),
                      after \in AllConversations(messages', m.receiver_id) :
                      \A i \in 1..Len(before), j \in 1..Len(after) :
                          before[i].user_id = m.sender_id /\ after[j].user_id = m.sender_id
                              => after[j].unread_count = before[i].unread_count - 1

\* C9: in the list get_conversations returns for user u, whatever the order
\* the rows are scanned in, the unread_count of every counterparty c is the
\* number of messages sent by c to u that are not read (a message sent by u to
\* c never counts), and mark_message_read on an unread message sent by c to u
\* lowers that count by exactly one.
C9_UnreadCount == [](UnreadCountsEverywhere) /\ [][MarkReadDropsOne]_vars

\* C9: teacher 3 wrote to student 5 and the message has just been marked read,
\* student 5 wrote to teacher 3 and that message is unread: the list of 5
\* shows teacher 3 with no unread message.
C9_Witness ==
    /\ resp.op = "mark_message_read" /\ resp.status = 200
    /\ \E m \in messages :
          m.id = resp.args.message_id /\ m.sender_id = 3 /\ m.receiver_id = 5 /\ m.is_read
    /\ \E m \in messages : m.sender_id = 5 /\ m.receiver_id = 3 /\ ~m.is_read
    /\ \A conversations \in AllConversations(messages, 5) :
          \E i \in 1..Len(conversations) :
              conversations[i].user_id = 3 /\ conversations[i].unread_count = 0

\* the messages of rows that carry the latest created_at of rows
Latest(rows) == {m \in rows : \A o \in rows : o.created_at <= m.created_at}

\* the first message of a scan that is one of rows
FirstScanned(scan, rows) ==
    LET at == {k \in 1..Len(scan) : scan[k] \in rows}
    IN scan[CHOOSE k \in at : \A other \in at : k <= other]

OneEntryPerCounterparty(conversations) ==
    \A i, j \in 1..Len(conversations) :
        i # j => conversations[i].user_id # conversations[j].user_id

SortedLatestFirst(conversations) ==
    \A i, j \in 1..Len(conversations) :
        i < j => conversations[i].last_message_time >= conversations[j].last_message_time

\* the entry shows the latest timestamp of the messages exchanged with its
\* counterparty and the content of the first scanned message that carries it
LastMessageIsLatest(table, u, scan, conversations) ==
    \A i \in 1..Len(conversations) :
        LET latest == Latest(Exchanged(table, u, conversations[i].user_id)) IN
        /\ latest # {}
        /\ conversations[i].last_message_time = (CHOOSE m \in latest : TRUE).created_at
        /\ conversations[i].last_message = FirstScanned(scan, latest).content
        /\ Cardinality(latest) = 1 =>
               conversations[i].last_message = (CHOOSE m \in latest : TRUE).content

ConversationListShape(conversations) ==
    /\ OneEntryPerCounterparty(conversations)
    /\ SortedLatestFirst(conversations)

\* C10 (as amended): the list get_conversations returns has at most one entry
\* per counterparty and is sorted by last-message time, latest first; each
\* entry carries the latest creation timestamp of the messages exchanged with
\* its counterparty, whatever the scan order, and the content of a message
\* with that timestamp: of the only one when no two messages share it, of the
\* first one scanned otherwise.
C10_LatestMessagePerCounterparty ==
    /\ \A u \in UserIds : \A scan \in ScanOrders(UserMessages(messages, u)) :
          LET conversations == Conversations(u, scan) IN
          /\ ConversationListShape(conversations)
          /\ LastMessageIsLatest(messages, u, scan, conversations)
    /\ resp.op = "get_conversations" /\ resp.status = 200
          => /\ ConversationListShape(resp.body.conversations)
             /\ resp.body.conversations \in AllConversations(messages, resp.args.user_id)

\* C10 (as stated): the last message of every entry does not depend on the
\* order in which the messages are scanned.
C10_LastMessageScanIndependent ==
    \A u \in UserIds :
        \A first, second \in AllConversations(messages, u) :
            /\ ConversationListShape(first)
            /\ \A i \in 1..Len(first), j \in 1..Len(second) :
                  first[i].user_id = second[j].user_id
                      => /\ first[i].last_message = second[j].last_message
                         /\ first[i].last_message_time = second[j].last_message_time

\* C10: student 5 and teacher 3 exchanged two messages of different content
\* at different times, and the list returned to student 5 shows the later one.
C10_Witness ==
    /\ resp.op = "get_conversations" /\ resp.status = 200 /\ resp.args.user_id = 5
    /\ \E early, late \in Exchanged(messages, 5, 3) :
          /\ early.created_at < late.created_at
          /\ early.content # late.content
          /\ \E i \in 1..Len(resp.body.conversations) :
                /\ resp.body.conversations[i].user_id = 3
                /\ resp.body.conversations[i].last_message = late.content
                /\ resp.body.conversations[i].last_message_time = late.created_at

(***************************************************************************)
(* Users, courses and parent links.                                        *)
(***************************************************************************)
\* db.query(User).filter(User.email == user.email).first()
UserByEmail(email) == {u \in users : u.email = email}

\* mutant: the grade label of the request is stored
RegisteredGrade_FromBody(grade_level) == grade_level

\* User(email=..., name=..., role=..., password=...): grade_level is not passed
RegisteredGrade(grade_level) == None

register(email, role, grade_level) ==
    LET args == [email |-> email, role |-> role, grade_level |-> grade_level] IN
    /\ IF UserByEmail(email) # {}
       THEN /\ resp' = Response("register", args, 400,
                                [detail |-> "Email ya registrado"])
            /\ UNCHANGED <<users, seq>>
       ELSE LET id == seq.users + 1 IN
            /\ seq.users < MaxUserId
            /\ users' = users \cup
                   {[id |-> id, email |-> email, role |-> role,
                     grade_level |-> RegisteredGrade(grade_level)]}
            /\ seq' = [seq EXCEPT !.users = id]
            /\ resp' = Response("register", args, 200,
                                [access_token |-> <<"token", id>>, id |-> id])
    /\ UNCHANGED <<adminVars, evalVars, learnVars, messages, now, pc>>

\* mutant: no foreign key keeps a user from being deleted
UserReferenced_Never(user_id) == FALSE

\* a row of another table holds the user's id in a NOT NULL foreign key
UserReferenced(user_id) ==
    \/ \E c \in courses : c.teacher_id = user_id
    \/ \E e \in enrollments : e.student_id = user_id
    \/ \E r \in BagToSet(completions) : r.student_id = user_id
    \/ \E r \in BagToSet(quiz_results) : r.student_id = user_id
    \/ \E r \in submissions : r.student_id = user_id
    \/ \E l \in links : l.parent_id = user_id \/ l.student_id = user_id
    \/ \E m \in messages : m.sender_id = user_id \/ m.receiver_id = user_id
    \/ \E e \in calendar_events : e.created_by = user_id

delete_user(user_id) ==
    /\ IF UserById(user_id) = {}
       THEN /\ resp' = Response("delete_user", [user_id |-> user_id], 404,
                                [detail |-> "Usuario no encontrado"])
            /\ UNCHANGED users
       ELSE IF UserReferenced(user_id)
       THEN /\ resp' = Response("delete_user", [user_id |-> user_id], 500,
                                [detail |-> "IntegrityError"])
            /\ UNCHANGED users
       ELSE /\ users' = users \ UserById(user_id)
            /\ resp' = Response("delete_user", [user_id |-> user_id], 200,
                                [message |-> "Usuario eliminado"])
    /\ UNCHANGED <<adminVars, evalVars, learnVars, messages, seq, now, pc>>

\* calendar_events.course_id is a foreign key: the INSERT of an event whose
\* course_id references no course makes db.commit() raise IntegrityError
create_calendar_event(course_id, created_by) ==
    LET args == [course_id |-> course_id, created_by |-> created_by]
        id == seq.calendar_events + 1
    IN
    /\ IF UserById(created_by) = {}
       THEN /\ resp' = Response("create_calendar_event", args, 404,
                                [detail |-> "Usuario no encontrado"])
            /\ UNCHANGED <<calendar_events, seq>>
       ELSE /\ seq.calendar_events < MaxEventId
            /\ seq' = [seq EXCEPT !.calendar_events = id]
            /\ IF course_id # None /\ CourseById(course_id.value) = {}
               THEN /\ resp' = Response("create_calendar_event", args, 500,
                                        [detail |-> "IntegrityError"])
                    /\ UNCHANGED calendar_events
               ELSE /\ calendar_events' = calendar_events \cup
                           {[id |-> id, course_id |-> course_id,
                             created_by |-> created_by]}
                    /\ resp' = Response("create_calendar_event", args, 200,
                                        [id |-> id, course_id |-> course_id,
                                         created_by |-> created_by])
    /\ UNCHANGED <<users, links, site_content_db, applications_db,
                   application_counter, evalVars, learnVars, messages,
                   now, pc>>

delete_calendar_event(event_id) ==
    LET found == {e \in calendar_events : e.id = event_id} IN
    /\ IF found = {}
       THEN /\ resp' = Response("delete_calendar_event", [event_id |-> event_id],
                                404, [detail |-> "Evento no encontrado"])
            /\ UNCHANGED calendar_events
       ELSE /\ calendar_events' = calendar_events \ found
            /\ resp' = Response("delete_calendar_event", [event_id |-> event_id],
                                200, [message |-> "Evento eliminado"])
    /\ UNCHANGED <<users, links, site_content_db, applications_db,
                   application_counter, evalVars, learnVars, messages,
                   seq, now, pc>>

\* teacher.role in [TEACHER, DIRECTOR, SUPERUSER]
CanTeach(role) == role \in {"teacher", "director", "superuser"}

\* mutant: the flag is taken from the request body
NewCoursePublished_FromBody(course) == course.is_published

\* is_published=False
NewCoursePublished(course) == FALSE

create_course(course, teacher_id) ==
    LET args == [course |-> course, teacher_id |-> teacher_id]
        teacher == UserById(teacher_id)
    IN
    /\ IF teacher = {}
       THEN /\ resp' = Response("create_course", args, 404,
                                [detail |-> "Profesor no encontrado"])
            /\ UNCHANGED <<courses, seq>>
       ELSE IF ~CanTeach((CHOOSE u \in teacher : TRUE).role)
       THEN /\ resp' = Response("create_course", args, 403,
                                [detail |-> "Solo profesores pueden crear cursos"])
            /\ UNCHANGED <<courses, seq>>
       ELSE LET id == seq.courses + 1
                row == [id |-> id, title |-> course.title,
                        teacher_id |-> teacher_id,
                        is_published |-> NewCoursePublished(course)]
            IN
            /\ seq.courses < MaxCourseId
            /\ courses' = courses \cup {row}
            /\ seq' = [seq EXCEPT !.courses = id]
            /\ resp' = Response("create_course", args, 200, row)
    /\ UNCHANGED <<users, adminVars, evalVars, lessons, completions,
                   quiz_results, enrollments, messages, now, pc>>

publish_course(course_id) ==
    LET found == CourseById(course_id) IN
    /\ IF found = {}
       THEN /\ resp' = Response("publish_course", [course_id |-> course_id], 404,
                                [detail |-> "Curso no encontrado"])
            /\ UNCHANGED courses
       ELSE /\ courses' = {IF c.id = course_id
                           THEN [c EXCEPT !.is_published = TRUE]
                           ELSE c : c \in courses}
            /\ resp' = Response("publish_course", [course_id |-> course_id], 200,
                                [message |-> "Curso publicado"])
    /\ UNCHANGED <<users, adminVars, evalVars, lessons, completions,
                   quiz_results, enrollments, messages, seq, now, pc>>

\* link_parent_to_student: existing
ExistingLink(parent_id, student_id) ==
    {l \in links : l.parent_id = parent_id /\ l.student_id = student_id}

\* student.role != UserRoleEnum.STUDENT
IsStudent(user) == user.role = "student"

link_parent_to_student(parent_id, student_id) ==
    LET args == [parent_id |-> parent_id, student_id |-> student_id]
        parent == UserById(parent_id)
        student == UserById(student_id)
    IN
    /\ IF parent = {}
       THEN /\ resp' = Response("link_parent_to_student", args, 404,
                                [detail |-> "Padre no encontrado"])
            /\ UNCHANGED <<links, seq>>
       ELSE IF student = {}
       THEN /\ resp' = Response("link_parent_to_student", args, 404,
                                [detail |-> "Estudiante no encontrado"])
            /\ UNCHANGED <<links, seq>>
       ELSE IF (CHOOSE u \in parent : TRUE).role # "parent"
       THEN /\ resp' = Response("link_parent_to_student", args, 400,
                                [detail |-> "El usuario no es un padre"])
            /\ UNCHANGED <<links, seq>>
       ELSE IF ~IsStudent(CHOOSE u \in student : TRUE)
       THEN /\ resp' = Response("link_parent_to_student", args, 400,
                                [detail |-> "El usuario no es un estudiante"])
            /\ UNCHANGED <<links, seq>>
       ELSE IF ExistingLink(parent_id, student_id) # {}
       THEN /\ resp' = Response("link_parent_to_student", args, 400,
                                [detail |-> "Vinculo ya existe"])
            /\ UNCHANGED <<links, seq>>
       ELSE LET id == seq.links + 1 IN
            /\ seq.links < MaxLinkId
            /\ links' = links \cup {[id |-> id, parent_id |-> parent_id,
                                     student_id |-> student_id]}
            /\ seq' = [seq EXCEPT !.links = id]
            /\ resp' = Response("link_parent_to_student", args, 200,
                                [message |-> "Vinculo creado"])
    /\ UNCHANGED <<users, evalVars, learnVars, calendar_events,
                   site_content_db, applications_db,
                   application_counter, messages, now, pc>>

(***************************************************************************)
(* SpecAdmin: accounts are registered and deleted, courses created and     *)
(* parents linked to students, one request at a time.                      *)
(***************************************************************************)

\* user ids still to be issued
NewUserArgs == 8..MaxUserId

NextAdmin ==
    \* email: the seeded admin's and two new ones
    \/ \E e \in {"admin@emunahacademy.com", "nueva@emunahacademy.com",
                 "otra@emunahacademy.com"},
          r \in {"teacher", "student", "parent"} : register(e, r, None)
    \/ \E u \in {0, 7} \cup NewUserArgs : delete_user(u)
    \* teacher_id: no user, a teacher, a student, a parent, a new user
    \/ \E c \in {[title |-> "Curso nuevo", is_published |-> FALSE],
                 [title |-> "Curso nuevo", is_published |-> TRUE]},
          t \in {0, 3, 5, 7} \cup NewUserArgs : create_course(c, t)
    \* parent_id and student_id: no user, users of each role, a new user
    \/ \E p \in {0, 5, 7} \cup NewUserArgs,
          c \in {0, 3, 5, 6} \cup NewUserArgs : link_parent_to_student(p, c)

SpecAdmin == Init /\ [][NextAdmin]_vars

(***************************************************************************)
(* Evaluations.  grade_evaluation reads datetime.now().                    *)
(***************************************************************************)
EvaluationById(evaluation_id) == {e \in evaluations : e.id = evaluation_id}

SubmissionById(submission_id) == {x \in submissions : x.id = submission_id}

create_evaluation(course_id) ==
    /\ IF CourseById(course_id) = {}
       THEN /\ resp' = Response("create_evaluation", [course_id |-> course_id],
                                404, [detail |-> "Curso no encontrado"])
            /\ UNCHANGED <<evaluations, seq>>
       ELSE LET id == seq.evaluations + 1 IN
            /\ seq.evaluations < MaxEvaluationId
            /\ evaluations' = evaluations \cup {[id |-> id, course_id |-> course_id]}
            /\ seq' = [seq EXCEPT !.evaluations = id]
            /\ resp' = Response("create_evaluation", [course_id |-> course_id],
                                200, [id |-> id, course_id |-> course_id])
    /\ UNCHANGED <<users, adminVars, learnVars, submissions, messages, now, pc>>

\* EvaluationSubmission(evaluation_id=..., student_id=..., content=...): the
\* columns score, feedback and graded_at have no default
SubmissionRow(id, evaluation_id, student_id) ==
    [id |-> id, evaluation_id |-> evaluation_id, student_id |-> student_id,
     score |-> None, feedback |-> None, graded_at |-> None]

submit_evaluation(evaluation_id, student_id) ==
    LET args == [evaluation_id |-> evaluation_id, student_id |-> student_id] IN
    /\ IF EvaluationById(evaluation_id) = {}
       THEN /\ resp' = Response("submit_evaluation", args, 404,
                                [detail |-> "Evaluacion no encontrada"])
            /\ UNCHANGED <<submissions, seq>>
       ELSE IF UserById(student_id) = {}
       THEN /\ resp' = Response("submit_evaluation", args, 404,
                                [detail |-> "Estudiante no encontrado"])
            /\ UNCHANGED <<submissions, seq>>
       ELSE LET id == seq.submissions + 1 IN
            /\ seq.submissions < MaxSubmissionId
            /\ submissions' = submissions
                   \cup {SubmissionRow(id, evaluation_id, student_id)}
            /\ seq' = [seq EXCEPT !.submissions = id]
            /\ resp' = Response("submit_evaluation", args, 200,
                                SubmissionRow(id, evaluation_id, student_id))
    /\ UNCHANGED <<users, adminVars, learnVars, evaluations, messages, now, pc>>

\* mutant: the timestamp of the grade is not written
Graded_NoTimestamp(submission, score, feedback) ==
    [submission EXCEPT !.score = Some(score), !.feedback = Some(feedback)]

\* submission.score = ..., submission.feedback = ..., submission.graded_at = ...
Graded(submission, score, feedback) ==
    [submission EXCEPT !.score = Some(score), !.feedback = Some(feedback),
                       !.graded_at = Some(now)]

grade_evaluation(submission_id, score, feedback) ==
    LET args == [submission_id |-> submission_id, score |-> score,
                 feedback |-> feedback]
        found == SubmissionById(submission_id)
    IN
    /\ IF found = {}
       THEN /\ resp' = Response("grade_evaluation", args, 404,
                                [detail |-> "Entrega no encontrada"])
            /\ UNCHANGED submissions
       ELSE LET graded == Graded(CHOOSE x \in found : TRUE, score, feedback) IN
            /\ submissions' = (submissions \ found) \cup {graded}
            /\ resp' = Response("grade_evaluation", args, 200, graded)
    /\ UNCHANGED <<users, adminVars, learnVars, evaluations, messages, seq,
                   now, pc>>

(***************************************************************************)
(* Site content and student applications: dicts of the server process.     *)
(***************************************************************************)
\* DEFAULT_SITE_CONTENT.keys()
DefaultSections ==
    {"hero", "about", "how_it_works", "programs", "impact", "faq", "contact"}

\* DEFAULT_SITE_CONTENT[section]
DefaultSiteContent(section) == [default_of |-> section]

\* dict with d[key] = value
DictSet(d, key, value) == (key :> value) @@ d

\* dict after del d[key]
DictDel(d, key) == [k \in DOMAIN d \ {key} |-> d[k]]

get_site_content(section) ==
    /\ IF section \in DOMAIN site_content_db
       THEN resp' = Response("get_site_content", [section |-> section], 200,
                             [section |-> section,
                              content |-> site_content_db[section].content,
                              updated_at |-> site_content_db[section].updated_at])
       ELSE IF section \in DefaultSections
       THEN resp' = Response("get_site_content", [section |-> section], 200,
                             [section |-> section,
                              content |-> DefaultSiteContent(section),
                              updated_at |-> now])
       ELSE resp' = Response("get_site_content", [section |-> section], 404,
                             [detail |-> "Section not found"])
    /\ UNCHANGED <<users, links, calendar_events, site_content_db, applications_db,
                   application_counter, evalVars, learnVars, messages, seq,
                   now, pc>>

\* mutant: the section name is not checked
KnownSection_Unchecked(section) == TRUE

\* section not in DEFAULT_SITE_CONTENT
KnownSection(section) == section \in DefaultSections

update_site_content(section, content) ==
    /\ IF ~KnownSection(section)
       THEN /\ resp' = Response("update_site_content", [section |-> section,
                                content |-> content], 400,
                                [detail |-> "Invalid section"])
            /\ UNCHANGED site_content_db
       ELSE LET entry == [section |-> section, content |-> content,
                          updated_at |-> now]
            IN
            /\ site_content_db' = DictSet(site_content_db, section, entry)
            /\ resp' = Response("update_site_content", [section |-> section,
                                content |-> content], 200, entry)
    /\ UNCHANGED <<users, links, calendar_events, applications_db, application_counter,
                   evalVars, learnVars, messages, seq, now, pc>>

\* the members of ApplicationStatus
ApplicationStatus == {"pending", "approved", "rejected"}

\* mutant: the id after the highest id stored
NextApplicationId_AfterStored ==
    IF DOMAIN applications_db = {}
    THEN 1
    ELSE 1 + CHOOSE k \in DOMAIN applications_db :
                 \A other \in DOMAIN applications_db : other <= k

\* get_next_application_id: the value returned
NextApplicationId == application_counter + 1

create_application ==
    LET app_id == NextApplicationId
        application == [id |-> app_id, status |-> "pending", created_at |-> now,
                        reviewed_at |-> None, reviewed_by |-> None]
    IN
    /\ application_counter < MaxApplicationId
    /\ application_counter' = app_id
    /\ applications_db' = DictSet(applications_db, app_id, application)
    /\ resp' = Response("create_application", <<>>, 200, application)
    /\ UNCHANGED <<users, links, calendar_events, site_content_db, evalVars, learnVars,
                   messages, seq, now, pc>>

\* mutant: teachers may review as well
CanReview_Teachers(role) == role \in {"superuser", "director", "teacher"}

\* reviewer.role in [SUPERUSER, DIRECTOR]
CanReview(role) == role \in {"superuser", "director"}

\* mutant: an application that has been approved or rejected stays as it is
Reviewed_Locked(application, status, reviewed_by) ==
    IF application.status \in {"approved", "rejected"}
    THEN application
    ELSE [application EXCEPT !.status = status, !.reviewed_at = Some(now),
                             !.reviewed_by = Some(reviewed_by)]

\* the three assignments of update_application_status
Reviewed(application, status, reviewed_by) ==
    [application EXCEPT !.status = status, !.reviewed_at = Some(now),
                        !.reviewed_by = Some(reviewed_by)]

\* mutant: the status is written before the reviewer is looked at
update_application_status_WriteFirst(application_id, status, reviewed_by) ==
    LET args == [application_id |-> application_id, status |-> status,
                 reviewed_by |-> reviewed_by]
        written == DictSet(applications_db, application_id,
                           [applications_db[application_id]
                               EXCEPT !.status = status])
    IN
    /\ IF application_id \notin DOMAIN applications_db
       THEN /\ resp' = Response("update_application_status", args, 404,
                                [detail |-> "Application not found"])
            /\ UNCHANGED applications_db
       ELSE IF UserById(reviewed_by) = {}
       THEN /\ resp' = Response("update_application_status", args, 404,
                                [detail |-> "Reviewer not found"])
            /\ applications_db' = written
       ELSE IF ~CanReview((CHOOSE u \in UserById(reviewed_by) : TRUE).role)
       THEN /\ resp' = Response("update_application_status", args, 403,
                   [detail |-> "Only superuser or director can review applications"])
            /\ applications_db' = written
       ELSE LET application == Reviewed(applications_db[application_id],
                                        status, reviewed_by)
            IN
            /\ applications_db' = DictSet(applications_db, application_id,
                                          application)
            /\ resp' = Response("update_application_status", args, 200,
                                application)
    /\ UNCHANGED <<users, links, calendar_events, site_content_db, application_counter,
                   evalVars, learnVars, messages, seq, now, pc>>

update_application_status(application_id, status, reviewed_by) ==
    LET args == [application_id |-> application_id, status |-> status,
                 reviewed_by |-> reviewed_by]
    IN
    /\ IF application_id \notin DOMAIN applications_db
       THEN /\ resp' = Response("update_application_status", args, 404,
                                [detail |-> "Application not found"])
            /\ UNCHANGED applications_db
       ELSE IF UserById(reviewed_by) = {}
       THEN /\ resp' = Response("update_application_status", args, 404,
                                [detail |-> "Reviewer not found"])
            /\ UNCHANGED applications_db
       ELSE IF ~CanReview((CHOOSE u \in UserById(reviewed_by) : TRUE).role)
       THEN /\ resp' = Response("update_application_status", args, 403,
                   [detail |-> "Only superuser or director can review applications"])
            /\ UNCHANGED applications_db
       ELSE LET application == Reviewed(applications_db[application_id],
                                        status, reviewed_by)
            IN
            /\ applications_db' = DictSet(applications_db, application_id,
                                          application)
            /\ resp' = Response("update_application_status", args, 200,
                                application)
    /\ UNCHANGED <<users, links, calendar_events, site_content_db, application_counter,
                   evalVars, learnVars, messages, seq, now, pc>>

delete_application(application_id) ==
    /\ IF application_id \notin DOMAIN applications_db
       THEN /\ resp' = Response("delete_application",
                                [application_id |-> application_id], 404,
                                [detail |-> "Application not found"])
            /\ UNCHANGED applications_db
       ELSE /\ applications_db' = DictDel(applications_db, application_id)
            /\ resp' = Response("delete_application",
                                [application_id |-> application_id], 200,
                                [message |-> "Application deleted"])
    /\ UNCHANGED <<users, links, calendar_events, site_content_db, application_counter,
                   evalVars, learnVars, messages, seq, now, pc>>

(***************************************************************************)
(* SpecApps: applications are created, reviewed and deleted.               *)
(***************************************************************************)
ApplicationArgs == 1..MaxApplicationId

NextApps ==
    \/ create_application
    \/ \E a \in ApplicationArgs, st \in ApplicationStatus, u \in {0, 1, 2, 3, 5, 7} :
          update_application_status(a, st, u)
    \/ \E a \in ApplicationArgs : delete_application(a)

SpecApps == Init /\ [][NextApps]_vars

(***************************************************************************)
(* Properties of accounts, courses and links, checked under SpecAdmin.     *)
(***************************************************************************)
\* no two rows of users carry the same email
EmailsUnique == \A u, v \in users : u.email = v.email => u = v

\* what register does with an email a stored user already has: it answers
\* status 400, which is BadRequest, and creates no user; requests being
\* served one at a time, no two stored users share an email
DuplicateEmailRefused ==
    /\ [](EmailsUnique)
    /\ [][Served("register") /\ UserByEmail(resp'.args.email) # {} =>
             /\ resp'.status = 400
             /\ ErrorKind(resp'.status) = "BadRequest"
             /\ users' = users]_vars

\* C11 as claimed: register with an email that a stored user already has
\* fails with Conflict and creates no user; no two stored users ever share
\* an email.
C11_DuplicateEmailConflict ==
    /\ [](EmailsUnique)
    /\ [][Served("register") /\ UserByEmail(resp'.args.email) # {} =>
             /\ ErrorKind(resp'.status) = "Conflict"
             /\ users' = users]_vars

\* the email of a user registered by a request (not seeded) was refused
DuplicateEmailReached ==
    /\ resp.op = "register" /\ resp.status = 400
    /\ \E u \in users : u.id > 7 /\ u.email = resp.args.email

\* C12: create_course with a teacher_id of no user fails with NotFound, with
\* the id of a student or a parent it fails with Forbidden, and neither
\* stores a course; a successful create_course stores one course, of that
\* teacher, with is_published false whatever the request body says.
C12_CreateCourse ==
    [][Served("create_course") =>
        LET teacher == UserById(resp'.args.teacher_id) IN
        /\ teacher = {} =>
              ErrorKind(resp'.status) = "NotFound" /\ courses' = courses
        /\ (\E u \in teacher : u.role \in {"student", "parent"}) =>
              ErrorKind(resp'.status) = "Forbidden" /\ courses' = courses
        /\ resp'.status = 200 =>
              \E c \in courses' \ courses :
                  /\ courses' = courses \cup {c}
                  /\ c.teacher_id = resp'.args.teacher_id
                  /\ c.is_published = FALSE]_vars

\* a request body that asked for a published course got an unpublished one
C12_Witness ==
    /\ resp.op = "create_course" /\ resp.status = 200
    /\ resp.args.course.is_published
    /\ \E c \in courses : c.id = resp.body.id /\ c.id > 3 /\ ~c.is_published

\* every link joins a stored parent to a stored student, and no pair twice
LinksWellFormed ==
    /\ \A l \in links :
          /\ \E u \in users : u.id = l.parent_id /\ u.role = "parent"
          /\ \E u \in users : u.id = l.student_id /\ u.role = "student"
    /\ \A l, m \in links :
          l.parent_id = m.parent_id /\ l.student_id = m.student_id => l = m

\* the two users of the request are stored and one has the wrong role
WrongRoles(parent_id, student_id) ==
    /\ UserById(parent_id) # {} /\ UserById(student_id) # {}
    /\ \/ \E u \in UserById(parent_id) : u.role # "parent"
       \/ \E u \in UserById(student_id) : u.role # "student"

\* the pair of the request is a stored parent and a stored student already
\* linked
AlreadyLinked(parent_id, student_id) ==
    /\ \E u \in UserById(parent_id) : u.role = "parent"
    /\ \E u \in UserById(student_id) : u.role = "student"
    /\ \E l \in links : l.parent_id = parent_id /\ l.student_id = student_id

\* what link_parent_to_student does: it answers BadRequest when the parent
\* is not of role parent or the student not of role student, and status
\* 400, BadRequest as well, when the pair is already linked, and stores
\* nothing in these cases; requests being served one at a time, every
\* stored link joins a parent to a student and no pair is stored twice
LinkRefusals ==
    /\ [](LinksWellFormed)
    /\ [][Served("link_parent_to_student") =>
             LET p == resp'.args.parent_id
                 c == resp'.args.student_id
             IN
             /\ WrongRoles(p, c) =>
                   ErrorKind(resp'.status) = "BadRequest" /\ links' = links
             /\ AlreadyLinked(p, c) =>
                   /\ resp'.status = 400
                   /\ ErrorKind(resp'.status) = "BadRequest"
                   /\ links' = links]_vars

\* C13 as claimed: link_parent_to_student fails with BadRequest when the
\* parent is not of role parent or the student not of role student, and
\* with Conflict when the pair is already linked; every stored link joins a
\* parent to a student and no pair is stored twice.
C13_DuplicateLinkConflict ==
    /\ [](LinksWellFormed)
    /\ [][Served("link_parent_to_student") =>
             LET p == resp'.args.parent_id
                 c == resp'.args.student_id
             IN
             /\ WrongRoles(p, c) =>
                   ErrorKind(resp'.status) = "BadRequest" /\ links' = links
             /\ AlreadyLinked(p, c) =>
                   ErrorKind(resp'.status) = "Conflict" /\ links' = links]_vars

\* a pair linked by a request (not by the seed) was refused a second time
DuplicateLinkReached ==
    /\ resp.op = "link_parent_to_student" /\ resp.status = 400
    /\ resp.body.detail = "Vinculo ya existe"
    /\ \E l \in links :
          /\ l.id > 1
          /\ l.parent_id = resp.args.parent_id
          /\ l.student_id = resp.args.student_id

(***************************************************************************)
(* Properties of the applications, checked under SpecApps.                 *)
(***************************************************************************)
\* C14: update_application_status of a stored application by a teacher, a
\* student or a parent fails with Forbidden and leaves the application as
\* it was; by a superuser or a director it stores the requested status,
\* the reviewer id and a timestamp, and touches no other application.  A
\* new application is pending with reviewed_at and reviewed_by null.
C14_ApplicationReview ==
    [][/\ Served("update_application_status") /\ now' = now =>
            LET a == resp'.args.application_id
                reviewer == UserById(resp'.args.reviewed_by)
            IN a \in DOMAIN applications_db =>
               /\ (\E u \in reviewer : u.role \in {"teacher", "student", "parent"}) =>
                     /\ ErrorKind(resp'.status) = "Forbidden"
                     /\ applications_db' = applications_db
               /\ (\E u \in reviewer : u.role \in {"superuser", "director"}) =>
                     /\ resp'.status = 200
                     /\ DOMAIN applications_db' = DOMAIN applications_db
                     /\ applications_db'[a].status = resp'.args.status
                     /\ applications_db'[a].reviewed_by = Some(resp'.args.reviewed_by)
                     /\ applications_db'[a].reviewed_at # None
                     /\ \A o \in DOMAIN applications_db \ {a} :
                           applications_db'[o] = applications_db[o]
       /\ Served("create_application") /\ now' = now =>
            \E a \in DOMAIN applications_db' \ DOMAIN applications_db :
                /\ applications_db'[a].status = "pending"
                /\ applications_db'[a].reviewed_at = None
                /\ applications_db'[a].reviewed_by = None]_vars

\* the director approved an application, and a teacher who then asked for
\* its rejection was refused
C14_Witness ==
    /\ resp.op = "update_application_status" /\ resp.status = 403
    /\ resp.args.status = "rejected" /\ resp.args.reviewed_by = 3
    /\ resp.args.application_id \in DOMAIN applications_db
    /\ LET application == applications_db[resp.args.application_id] IN
          /\ application.status = "approved"
          /\ application.reviewed_by = Some(2)
          /\ application.reviewed_at # None

(***************************************************************************)
(* SpecEval: evaluations of a course are created, answered by a student    *)
(* and graded, again and again as time passes, one request at a time.      *)
(***************************************************************************)

EvaluationArgs == 1..MaxEvaluationId

NextEval ==
    \/ tick
    \/ \E c \in {0, 1} : create_evaluation(c)
    \/ \E e \in EvaluationArgs, u \in {0, 5} : submit_evaluation(e, u)
    \/ \E x \in 1..MaxSubmissionId, g \in {<<0, "">>, <<85, "bien">>} :
          grade_evaluation(x, g[1], g[2])

SpecEval == Init /\ [][NextEval]_vars

\* score, feedback and graded_at of a submission are all null or none is
GradeAllOrNothing(x) ==
    \/ x.score = None /\ x.feedback = None /\ x.graded_at = None
    \/ x.score # None /\ x.feedback # None /\ x.graded_at # None

\* C15: submit_evaluation stores a submission whose score, feedback and
\* graded_at are null; grade_evaluation of a stored submission, graded
\* before or not, stores the score and the feedback of the request and a
\* timestamp; so the three are null together or set together in every state.
C15_GradeAllOrNothing ==
    /\ [](\A x \in submissions : GradeAllOrNothing(x))
    /\ [][/\ Served("submit_evaluation") /\ resp'.status = 200 /\ now' = now =>
               \E x \in submissions' \ submissions :
                   /\ submissions' = submissions \cup {x}
                   /\ x.score = None /\ x.feedback = None /\ x.graded_at = None
          /\ Served("grade_evaluation") /\ now' = now =>
               \A x \in SubmissionById(resp'.args.submission_id) :
                   \E y \in submissions' :
                       /\ submissions' = (submissions \ {x}) \cup {y}
                       /\ y.id = x.id
                       /\ y.score = Some(resp'.args.score)
                       /\ y.feedback = Some(resp'.args.feedback)
                       /\ y.graded_at = Some(now)]_vars

\* two submissions have been graded at different times: the one the last
\* request named carries the score and the time of that request
C15_Witness ==
    /\ resp.op = "grade_evaluation" /\ resp.status = 200
    /\ now = 1
    /\ \E x \in submissions :
          /\ x.id = resp.args.submission_id
          /\ x.score = Some(85) /\ x.score = Some(resp.args.score)
          /\ x.graded_at = Some(1)
    /\ \E x \in submissions : x.graded_at = Some(0)

(***************************************************************************)
(* SpecSite: sections of the site are written and read as time passes.     *)
(***************************************************************************)

NextSite ==
    \/ tick
    \/ \E k \in {"hero", "faq", "blog"}, c \in {[title |-> "a"], [title |-> "b"]} : update_site_content(k, c)
    \/ \E k \in {"hero", "faq", "blog"} : get_site_content(k)

SpecSite == Init /\ [][NextSite]_vars

\* C16: writing a section outside the fixed set is a BadRequest that stores
\* nothing and reading one is NotFound; a write of a known section stores
\* its content under that section only, and only writes change the stored
\* content; a read of a known section answers the stored content, or the
\* default when none is stored, and changes nothing; the stored sections
\* are always among the fixed set.
C16_SiteContent ==
    /\ [](DOMAIN site_content_db \subseteq DefaultSections)
    /\ [][/\ Served("update_site_content") /\ now' = now =>
               IF resp'.args.section \in DefaultSections
               THEN /\ resp'.status = 200
                    /\ DOMAIN site_content_db' =
                           DOMAIN site_content_db \cup {resp'.args.section}
                    /\ site_content_db'[resp'.args.section].content =
                           resp'.args.content
                    /\ \A k \in DOMAIN site_content_db \ {resp'.args.section} :
                           site_content_db'[k] = site_content_db[k]
               ELSE /\ resp'.status = 400
                    /\ ErrorKind(resp'.status) = "BadRequest"
                    /\ site_content_db' = site_content_db
          /\ Served("get_site_content") /\ now' = now =>
               /\ site_content_db' = site_content_db
               /\ IF resp'.args.section \notin DefaultSections
                  THEN /\ resp'.status = 404
                       /\ ErrorKind(resp'.status) = "NotFound"
                  ELSE /\ resp'.status = 200
                       /\ resp'.body.content =
                              IF resp'.args.section \in DOMAIN site_content_db
                              THEN site_content_db[resp'.args.section].content
                              ELSE DefaultSiteContent(resp'.args.section)
          /\ site_content_db' # site_content_db =>
               Served("update_site_content") /\ now' = now]_vars

\* a section written earlier is read back with the content last written to
\* it while another known section still has no stored content
C16_Witness ==
    /\ resp.op = "get_site_content" /\ resp.status = 200
    /\ resp.args.section = "hero"
    /\ resp.body.content = [title |-> "b"]
    /\ resp.body.updated_at < now
    /\ "faq" \notin DOMAIN site_content_db

(***************************************************************************)
(* SpecErrors: the operations that can refuse a request, with inputs they   *)
(* refuse and, for those that fill new tables, inputs they accept, served  *)
(* one at a time.                                                          *)
(***************************************************************************)
NextErrors ==
    \* an email of the seed and a new one
    \/ \E e \in {"admin@emunahacademy.com", "nueva@emunahacademy.com"} :
          register(e, "student", None)
    \* teacher_id: no user, a teacher, a student
    \/ \E t \in {0, 3, 5} : create_course([title |-> "Curso nuevo", is_published |-> TRUE], t)
    \* unknown student, unknown course, a seeded enrollment
    \/ \E a \in {<<0, 1>>, <<5, 0>>, <<5, 1>>} : create_enrollment(a[1], a[2])
    \* unknown parent, a student as parent, the seeded link
    \/ \E a \in {<<0, 5>>, <<5, 6>>, <<7, 5>>} :
          link_parent_to_student(a[1], a[2])
    \* lesson_id: no lesson, a text lesson, the quiz
    \/ \E l \in {0, 1, 3} : submit_quiz(l, <<1, 0>>, 5)
    \/ create_evaluation(1)
    \* student_id: no user and a student
    \/ \E u \in {0, 5} : submit_evaluation(1, u)
    \/ grade_evaluation(1, 85, "bien")
    \/ create_application
    \* reviewed_by: no user, a teacher, the superuser
    \/ \E r \in {0, 3, 1} : update_application_status(1, "approved", r)

SpecErrors == Init /\ [][NextErrors]_vars

\* the operations that refuse requests before they write
RefusingOps ==
    {"register", "create_course", "create_enrollment",
     "link_parent_to_student", "submit_quiz", "submit_evaluation",
     "grade_evaluation", "update_application_status"}

ErrorKinds == {"NotFound", "Conflict", "Forbidden", "BadRequest", "Unauthorized"}

\* the tables, the in-memory dictionaries and the id counters
store == <<users, courses, lessons, completions, quiz_results, enrollments,
           messages, links, evaluations, submissions, calendar_events,
           site_content_db,
           applications_db, application_counter, seq>>

\* C17: when register, create_course, create_enrollment,
\* link_parent_to_student, submit_quiz, submit_evaluation, grade_evaluation
\* or update_application_status answers NotFound, Conflict, Forbidden,
\* BadRequest or Unauthorized, no table, dictionary or counter has changed.
C17_ErrorsChangeNothing ==
    [][resp'.op \in RefusingOps /\ ErrorKind(resp'.status) \in ErrorKinds
          => store' = store]_vars

\* a reviewer who is a teacher has just been refused on a pending
\* application, after users, courses, quiz results and submissions have
\* been written
C17_Witness ==
    /\ resp.op = "update_application_status" /\ resp.status = 403
    /\ 1 \in DOMAIN applications_db
    /\ applications_db[1].status = "pending"
    /\ submissions # {} /\ quiz_results # EmptyBag
    /\ users # SeedUsers /\ courses # SeedCourses

(***************************************************************************)
(* SpecIds: applications and enrollments are created and deleted.          *)
(***************************************************************************)
NextIds ==
    \/ create_application
    \/ \E a \in ApplicationArgs : delete_application(a)
    \* students 5 and 6 enroll in course 3, where the seed enrolls nobody
    \/ \E u \in {5, 6} : create_enrollment(u, 3)
    \/ \E e \in EnrollmentArgs : delete_enrollment(e)

SpecIds == Init /\ [][NextIds]_vars

\* C18: the id a create returns is greater than every id issued before it,
\* deleted or not: the last id issued never decreases, no stored record has
\* a greater id, and a create returns a greater one and makes it the last
\* id issued; checked for applications and for enrollments.
C18_IdsNeverReused ==
    /\ [](/\ \A k \in DOMAIN applications_db : k <= application_counter
          /\ \A e \in enrollments : e.id <= seq.enrollments)
    /\ [][/\ application_counter' >= application_counter
          /\ seq'.enrollments >= seq.enrollments
          /\ Served("create_application") =>
               /\ resp'.body.id > application_counter
               /\ application_counter' = resp'.body.id
               /\ DOMAIN applications_db' =
                      DOMAIN applications_db \cup {resp'.body.id}
          /\ Served("create_enrollment") /\ resp'.status = 200 =>
               /\ resp'.body.id > seq.enrollments
               /\ seq'.enrollments = resp'.body.id
               /\ \E e \in enrollments' :
                      e.id = resp'.body.id /\ enrollments' = enrollments \cup {e}]_vars

\* an application and an enrollment were created after earlier ones had
\* been deleted: each is the only record left and has the second id issued
C18_Witness ==
    /\ resp.op = "create_application"
    /\ DOMAIN applications_db = {2}
    /\ \E e \in enrollments :
          /\ e.id = 6
          /\ \A other \in enrollments : other.course_id = 3 => other = e

(***************************************************************************)
(* SpecCascade: lessons and evaluations are added to two courses, a        *)
(* student answers the evaluations and asks for the progress report, and   *)
(* courses are deleted.                                                    *)
(***************************************************************************)
NextCascade ==
    \/ \E c \in {1, 2} : create_lesson(c, "text", NotJson)
    \/ \E c \in {1, 2} : create_evaluation(c)
    \/ \E e \in EvaluationArgs : submit_evaluation(e, 5)
    \* course_id: two seeded courses and 0, the id of no course
    \/ \E c \in {0, 1} \cup {2} : delete_course(c)
    \/ get_student_progress(5)

SpecCascade == Init /\ [][NextCascade]_vars

\* the rows of a table that belong to a course
OfCourse(rows, course_id) == {r \in rows : r.course_id = course_id}

\* C19: a delete_course that succeeds leaves no lesson, enrollment or
\* evaluation of the deleted course and leaves the lessons, enrollments,
\* evaluations and course rows of every other course as they were.
C19_DeleteCourseCascades ==
    [][Served("delete_course") /\ resp'.status = 200 =>
          LET c == resp'.args.course_id IN
          /\ CourseById(c) # {}
          /\ OfCourse(lessons', c) = {}
          /\ OfCourse(enrollments', c) = {}
          /\ OfCourse(evaluations', c) = {}
          /\ courses' = courses \ CourseById(c)
          /\ \A other \in {k.id : k \in courses} \ {c} :
                /\ OfCourse(lessons', other) = OfCourse(lessons, other)
                /\ OfCourse(enrollments', other) = OfCourse(enrollments, other)
                /\ OfCourse(evaluations', other) = OfCourse(evaluations, other)]_vars

\* course 1 has been deleted with its lessons, its enrollments, its
\* evaluation and the submission that answered it, while course 2 keeps
\* its lesson and its enrollments
C19_Witness ==
    /\ resp.op = "delete_course" /\ resp.status = 200
    /\ resp.args.course_id = 1
    /\ CourseById(2) # {}
    /\ seq.evaluations = 1 /\ seq.submissions >= 1
    /\ evaluations = {} /\ submissions = {}
    /\ OfCourse(lessons, 1) = {} /\ OfCourse(enrollments, 1) = {}
    /\ OfCourse(lessons, 2) # {} /\ OfCourse(enrollments, 2) # {}

(***************************************************************************)
(* SpecEnrollConc: create_enrollment, delete_enrollment and                *)
(* get_student_progress served by several worker processes, each split at  *)
(* its statements.  The enrollments table declares no unique constraint on *)
(* (student_id, course_id), so the INSERT of a request is not refused when *)
(* another request has stored the same pair since the SELECT.              *)
(***************************************************************************)
\* create_enrollment: the SELECT of the student
create_enrollment_select(w, student_id, course_id) ==
    LET args == [student_id |-> student_id, course_id |-> course_id] IN
    /\ pc[w] = Idle
    /\ IF UserById(student_id) = {}
       THEN /\ resp' = Response("create_enrollment", args, 404,
                                [detail |-> "Estudiante no encontrado"])
            /\ UNCHANGED pc
       ELSE /\ pc' = [pc EXCEPT ![w] =
                         [at |-> "create_enrollment_course", args |-> args,
                          id |-> 0]]
            /\ UNCHANGED resp
    /\ UNCHANGED <<users, adminVars, evalVars, learnVars, messages, seq, now>>

\* create_enrollment: the SELECT of the course
create_enrollment_course(w) ==
    /\ pc[w].at = "create_enrollment_course"
    /\ IF CourseById(pc[w].args.course_id) = {}
       THEN /\ resp' = Response("create_enrollment", pc[w].args, 404,
                                [detail |-> "Curso no encontrado"])
            /\ pc' = [pc EXCEPT ![w] = Idle]
       ELSE /\ pc' = [pc EXCEPT ![w].at = "create_enrollment_existing"]
            /\ UNCHANGED resp
    /\ UNCHANGED <<users, adminVars, evalVars, learnVars, messages, seq, now>>

\* create_enrollment: the SELECT of the existing enrollment, "if existing"
create_enrollment_existing(w) ==
    /\ pc[w].at = "create_enrollment_existing"
    /\ IF ExistingEnrollment(pc[w].args.student_id, pc[w].args.course_id) # {}
       THEN /\ resp' = Response("create_enrollment", pc[w].args, 400,
                                [detail |-> "Estudiante ya inscrito en este curso"])
            /\ pc' = [pc EXCEPT ![w] = Idle]
       ELSE /\ pc' = [pc EXCEPT ![w].at = "enrollment_insert"]
            /\ UNCHANGED resp
    /\ UNCHANGED <<users, adminVars, evalVars, learnVars, messages, seq, now>>

\* db.add(db_enrollment); db.commit()
enrollment_insert(w) ==
    LET args == pc[w].args
        id == seq.enrollments + 1
    IN
    /\ pc[w].at = "enrollment_insert"
    /\ seq.enrollments < MaxEnrollmentId
    /\ IF UserById(args.student_id) = {} \/ CourseById(args.course_id) = {}
       THEN /\ resp' = Response("create_enrollment", args, 500,
                                [detail |-> "IntegrityError"])
            /\ pc' = [pc EXCEPT ![w] = Idle]
            /\ UNCHANGED enrollments
       ELSE /\ enrollments' = enrollments \cup
                   {[id |-> id, student_id |-> args.student_id,
                     course_id |-> args.course_id]}
            /\ pc' = [pc EXCEPT ![w] =
                         [pc[w] EXCEPT !.at = "enrollment_refresh", !.id = id]]
            /\ UNCHANGED resp
    /\ seq' = [seq EXCEPT !.enrollments = id]
    /\ UNCHANGED <<users, adminVars, evalVars,
                   courses, lessons, completions, quiz_results,
                   messages, now>>

\* db.refresh(db_enrollment): the SELECT of the row just committed, which
\* is gone when it was deleted since
enrollment_refresh(w) ==
    /\ pc[w].at = "enrollment_refresh"
    /\ resp' =
          IF {e \in enrollments : e.id = pc[w].id} # {}
          THEN Response("create_enrollment", pc[w].args, 200,
                        [id |-> pc[w].id])
          ELSE Response("create_enrollment", pc[w].args, 500,
                        [detail |-> "InvalidRequestError"])
    /\ pc' = [pc EXCEPT ![w] = Idle]
    /\ UNCHANGED <<users, adminVars, evalVars, learnVars, messages, seq, now>>

\* delete_enrollment: the SELECT of the enrollment
delete_enrollment_select(w, enrollment_id) ==
    LET args == [enrollment_id |-> enrollment_id] IN
    /\ pc[w] = Idle
    /\ IF {e \in enrollments : e.id = enrollment_id} = {}
       THEN /\ resp' = Response("delete_enrollment", args, 404,
                                [detail |-> "Inscripcion no encontrada"])
            /\ UNCHANGED pc
       ELSE /\ pc' = [pc EXCEPT ![w] =
                         [at |-> "delete_enrollment_flush", args |-> args]]
            /\ UNCHANGED resp
    /\ UNCHANGED <<users, adminVars, evalVars, learnVars, messages, seq, now>>

\* db.delete(enrollment); db.commit(): a DELETE that matches no row (the
\* enrollment was deleted meanwhile) raises nothing
delete_enrollment_flush(w) ==
    /\ pc[w].at = "delete_enrollment_flush"
    /\ enrollments' =
          {e \in enrollments : e.id # pc[w].args.enrollment_id}
    /\ resp' = Response("delete_enrollment", pc[w].args, 200,
                        [message |-> "Inscripcion eliminada"])
    /\ pc' = [pc EXCEPT ![w] = Idle]
    /\ UNCHANGED <<users, adminVars, evalVars,
                   courses, lessons, completions, quiz_results,
                   messages, seq, now>>

NextEnrollConc ==
    \* student_id: no user and a student; course_id: no course and a course
    \* of the seed in which the student is not enrolled
    \/ \E w \in Workers, u \in {0, 5}, c \in {0, 3} :
          create_enrollment_select(w, u, c)
    \/ \E w \in Workers : create_enrollment_course(w)
    \/ \E w \in Workers : create_enrollment_existing(w)
    \/ \E w \in Workers : enrollment_insert(w)
    \/ \E w \in Workers : enrollment_refresh(w)
    \/ \E w \in Workers : delete_enrollment_select(w, 5)
    \/ \E w \in Workers : delete_enrollment_flush(w)
    \/ \E w \in Workers, u \in {0, 5} : get_student_progress_select(w, u)
    \/ \E w \in Workers : progress_enrollments(w)
    \/ \E w \in Workers : progress_course(w)
    \/ \E w \in Workers : progress_lessons(w)
    \/ \E w \in Workers : progress_completions(w)
    \/ \E w \in Workers : progress_results(w)
    \/ \E w \in Workers : progress_evaluations(w)
    \/ \E w \in Workers : progress_submissions(w)

SpecEnrollConc == Init /\ [][NextEnrollConc]_vars

\* the course ids of the courses a student is enrolled in
EnrolledCourses(student_id) ==
    {e.course_id : e \in {x \in enrollments : x.student_id = student_id}}

\* the steps of a get_student_progress request after its first SELECT
ProgressSteps ==
    {"progress_enrollments", "progress_course", "progress_lessons",
     "progress_completions", "progress_results", "progress_evaluations",
     "progress_submissions"}

\* the enrollment rows the request of worker w has loaded, or loads in the
\* step it is taking
LoadedEnrollments(w) ==
    IF pc[w].at = "progress_enrollments"
    THEN RowsById({e \in enrollments : e.student_id = pc[w].args.student_id})
    ELSE pc[w].rows

\* the records follow the enrollment rows: every course of a row has a
\* record, every record is of a course of a row, and records come in the
\* order of the rows
FollowsRows(progress, rows) ==
    /\ {progress[i].course_id : i \in 1..Len(progress)} =
           {rows[a].course_id : a \in 1..Len(rows)}
    /\ \A i, j \in 1..Len(progress) : i < j =>
           \E a, b \in 1..Len(rows) :
               /\ a < b
               /\ rows[a].course_id = progress[i].course_id
               /\ rows[b].course_id = progress[j].course_id

NoCourseTwice(progress) ==
    \A i, j \in 1..Len(progress) :
        progress[i].course_id = progress[j].course_id => i = j

\* what a step of a get_student_progress request does: its first SELECT
\* answers NotFound exactly when the id is of no user; no step changes a
\* table; the step that answers returns records that follow the enrollment
\* rows the request loaded and, when once is asked for, no course twice
ProgressRequestStep(once) ==
    /\ (pc' = pc /\ resp' # resp /\ resp'.op = "get_student_progress") =>
          /\ ErrorKind(resp'.status) = "NotFound"
          /\ UserById(resp'.args.student_id) = {}
          /\ store' = store
    /\ \A w \in Workers :
          /\ (pc[w] = Idle /\ pc'[w].at = "progress_enrollments") =>
                UserById(pc'[w].args.student_id) # {} /\ store' = store
          /\ (pc[w].at \in ProgressSteps /\ pc'[w] # pc[w]) =>
                /\ store' = store
                /\ pc'[w] = Idle =>
                      /\ resp'.op = "get_student_progress"
                      /\ resp'.status = 200
                      /\ FollowsRows(resp'.body.progress, LoadedEnrollments(w))
                      /\ once => NoCourseTwice(resp'.body.progress)

\* C20 as claimed: get_student_progress answers NotFound for the id of no
\* user; otherwise it answers one record per course the student is
\* enrolled in, no course twice and none missing, in the order of the
\* student's enrollment rows; and it changes no table.
C20_OneRecordPerEnrolledCourse == [][ProgressRequestStep(TRUE)]_vars

\* what holds of get_student_progress also when requests interleave: all of
\* the above except that a course enrolled twice is reported twice
ProgressFollowsEnrollments == [][ProgressRequestStep(FALSE)]_vars

(***************************************************************************)
(* Properties of interleaved requests, checked under SpecConc and          *)
(* SpecEnrollConc.                                                         *)
(***************************************************************************)
\* C21 as claimed: no (student, lesson) pair has more than one completion
\* row, also when the SELECT and the INSERT of two complete_lesson
\* requests, or of complete_lesson and the completion step of submit_quiz,
\* interleave.
C21_OneCompletionPerPair ==
    \A u \in users, l \in lessons : CompletionCount(l.id, u.id) <= 1

\* C22 as claimed: no (student, course) pair has more than one enrollment
\* row, also when the SELECT and the INSERT of two create_enrollment
\* requests interleave.
C22_OneEnrollmentPerPair ==
    \A e, f \in enrollments :
        e.student_id = f.student_id /\ e.course_id = f.course_id => e = f

(***************************************************************************)
(* SpecGradeConc: grade_evaluation served by several worker processes on   *)
(* a stored submission.  The request is split at its SELECT, its           *)
(* db.commit(), its db.refresh() and its SELECT of the student.  The       *)
(* commit flushes the ORM object: the UPDATE it sends sets the columns     *)
(* whose assigned value differs from the value the SELECT loaded, and no   *)
(* others, on the row as it is stored when the UPDATE runs.                *)
(***************************************************************************)
\* the row after the UPDATE of a request that loaded `loaded` and assigned
\* the score, feedback and graded_at of `assigned`
Flushed(current, loaded, assigned) ==
    [current EXCEPT
        !.score = IF assigned.score # loaded.score
                  THEN assigned.score ELSE current.score,
        !.feedback = IF assigned.feedback # loaded.feedback
                     THEN assigned.feedback ELSE current.feedback,
        !.graded_at = IF assigned.graded_at # loaded.graded_at
                      THEN assigned.graded_at ELSE current.graded_at]

\* grade_evaluation: the SELECT of the submission
grade_evaluation_select(w, submission_id, score, feedback) ==
    LET args == [submission_id |-> submission_id, score |-> score,
                 feedback |-> feedback]
        found == SubmissionById(submission_id)
    IN
    /\ pc[w] = Idle
    /\ IF found = {}
       THEN /\ resp' = Response("grade_evaluation", args, 404,
                                [detail |-> "Entrega no encontrada"])
            /\ UNCHANGED pc
       ELSE /\ pc' = [pc EXCEPT ![w] =
                         [at |-> "grade_evaluation_commit", args |-> args,
                          loaded |-> CHOOSE x \in found : TRUE,
                          since |-> now]]
            /\ UNCHANGED resp
    /\ UNCHANGED <<users, adminVars, evalVars, learnVars, messages, seq, now>>

\* the three assignments and db.commit(); datetime.now() is read after the
\* SELECT has answered and before the UPDATE is sent
grade_evaluation_commit(w) ==
    LET args == pc[w].args
        loaded == pc[w].loaded
        found == SubmissionById(args.submission_id)
    IN
    /\ pc[w].at = "grade_evaluation_commit"
    /\ \E t \in pc[w].since..now :
          LET assigned == [Graded(loaded, args.score, args.feedback)
                              EXCEPT !.graded_at = Some(t)]
          IN
          IF assigned = loaded
          THEN \* no column changed: no UPDATE is sent and the commit succeeds
               /\ pc' = [pc EXCEPT ![w].at = "grade_evaluation_refresh"]
               /\ UNCHANGED <<submissions, resp>>
          ELSE IF found = {}
          THEN \* the UPDATE matches no row: StaleDataError
               /\ resp' = Response("grade_evaluation", args, 500,
                                   [detail |-> "StaleDataError"])
               /\ pc' = [pc EXCEPT ![w] = Idle]
               /\ UNCHANGED submissions
          ELSE /\ submissions' = (submissions \ found) \cup
                      {Flushed(CHOOSE x \in found : TRUE, loaded, assigned)}
               /\ pc' = [pc EXCEPT ![w].at = "grade_evaluation_refresh"]
               /\ UNCHANGED resp
    /\ UNCHANGED <<users, adminVars, learnVars, evaluations, messages, seq,
                   now>>

\* db.refresh(submission): the SELECT of the row as it is stored now
grade_evaluation_refresh(w) ==
    LET found == SubmissionById(pc[w].args.submission_id) IN
    /\ pc[w].at = "grade_evaluation_refresh"
    /\ IF found = {}
       THEN /\ resp' = Response("grade_evaluation", pc[w].args, 500,
                                [detail |-> "InvalidRequestError"])
            /\ pc' = [pc EXCEPT ![w] = Idle]
       ELSE /\ pc' = [pc EXCEPT ![w] =
                         [pc[w] EXCEPT !.at = "grade_evaluation_student",
                                       !.loaded = CHOOSE x \in found : TRUE]]
            /\ UNCHANGED resp
    /\ UNCHANGED <<users, adminVars, evalVars, learnVars, messages, seq, now>>

\* the SELECT of the student (a student who is gone is named "Unknown")
\* and the response, built from the submission as the refresh read it
grade_evaluation_student(w) ==
    /\ pc[w].at = "grade_evaluation_student"
    /\ resp' = Response("grade_evaluation", pc[w].args, 200, pc[w].loaded)
    /\ pc' = [pc EXCEPT ![w] = Idle]
    /\ UNCHANGED <<users, adminVars, evalVars, learnVars, messages, seq, now>>

\* the seeded database after create_evaluation for course 1 and
\* submit_evaluation of student 5
InitGrade ==
    /\ users = SeedUsers
    /\ courses = SeedCourses
    /\ lessons = SeedLessons
    /\ completions = EmptyBag
    /\ quiz_results = EmptyBag
    /\ enrollments = SeedEnrollments
    /\ messages = {}
    /\ links = SeedLinks
    /\ calendar_events = SeedEvents
    /\ evaluations = {[id |-> 1, course_id |-> 1]}
    /\ submissions = {SubmissionRow(1, 1, 5)}
    /\ site_content_db = <<>>
    /\ applications_db = <<>>
    /\ application_counter = 0
    /\ seq = [users |-> 7, courses |-> 3, lessons |-> 3, enrollments |-> 4,
              messages |-> 0, links |-> 1, evaluations |-> 1, submissions |-> 1,
              calendar_events |-> 2]
    /\ now = 0
    /\ resp = [op |-> "startup", status |-> 200]
    /\ pc = [w \in Workers |-> Idle]

NextGradeConc ==
    \/ tick
    \* submission_id: the submission and the id of none; EvaluationGrade
    \* bodies that differ from one another in one field
    \/ \E w \in Workers, x \in {1, 2},
          g \in {<<0, "x">>, <<0, "y">>, <<50, "x">>} :
          grade_evaluation_select(w, x, g[1], g[2])
    \/ \E w \in Workers : grade_evaluation_commit(w)
    \/ \E w \in Workers : grade_evaluation_refresh(w)
    \/ \E w \in Workers : grade_evaluation_student(w)

SpecGradeConc == InitGrade /\ [][NextGradeConc]_vars

\* C23 as claimed: the last write wins whole: when a grade_evaluation
\* request has committed, the stored score, feedback and timestamp of the
\* submission are those this request wrote, never the score of one request
\* with the feedback of another.
C23_LastWriteWins ==
    [][\A w \in Workers :
          /\ pc[w].at = "grade_evaluation_commit"
          /\ pc'[w].at = "grade_evaluation_refresh"
          =>
          \E x \in submissions' :
              /\ x.id = pc[w].args.submission_id
              /\ x.score = Some(pc[w].args.score)
              /\ x.feedback = Some(pc[w].args.feedback)
              /\ x.graded_at \in {Some(t) : t \in pc[w].since..now}]_vars

(***************************************************************************)
(* SpecQuizConc: submit_quiz requests of two students on the seeded quiz,  *)
(* served by several worker processes while the quiz is deleted.           *)
(***************************************************************************)
NextQuizConc ==
    \/ \E w \in Workers, u \in {5, 6} : submit_quiz_select(w, 3, <<1, 1>>, u)
    \/ \E w \in Workers : submit_quiz_insert(w)
    \/ \E w \in Workers : submit_quiz_refresh(w)
    \/ \E w \in Workers : submit_quiz_complete(w)
    \/ \E w \in Workers : complete_lesson_existing(w)
    \/ \E w \in Workers : completion_insert(w)
    \/ \E w \in Workers : submit_quiz_reload(w)
    \/ \E w \in Workers : delete_lesson_select(w, 3)
    \/ \E w \in Workers : delete_lesson_completions(w)
    \/ \E w \in Workers : delete_lesson_results(w)
    \/ \E w \in Workers : delete_lesson_flush(w)

SpecQuizConc == Init /\ [][NextQuizConc]_vars

\* worker w ends a submit_quiz request in its completion step, with an error
CompletionStepFails(w) ==
    /\ \/ pc[w].at = "submit_quiz_complete"
       \/ pc[w].at = "completion_insert" /\ pc[w].caller = "submit_quiz"
    /\ pc'[w] = Idle
    /\ resp'.op = "submit_quiz" /\ resp'.status # 200

\* C24 as claimed: when the completion step of submit_quiz fails after the
\* quiz result was committed, the quiz result is still stored.
C24_ResultSurvivesFailedCompletion ==
    [][\A w \in Workers : CompletionStepFails(w) =>
          ResultsIn(quiz_results', pc[w].args.lesson_id,
                    pc[w].args.student_id) >= 1]_vars

\* C24, amended: the first step of submit_quiz commits the quiz result; when
\* the completion step then fails, the request answers an error and leaves
\* the quiz results as they are (nothing is rolled back), but the lesson is
\* gone and the delete that removed it has removed the lesson's quiz
\* results, the committed one included: none of them is stored any more.
C24_FailedCompletionAfterCascade ==
    [][\A w \in Workers :
          /\ pc[w].at = "submit_quiz_insert"
             /\ pc'[w].at = "submit_quiz_refresh" =>
                quiz_results' = quiz_results (+) SetToBag({pc[w].row})
          /\ CompletionStepFails(w) =>
                /\ resp'.status \in {404, 500}
                /\ quiz_results' = quiz_results
                /\ completions' = completions
                /\ LessonById(pc[w].args.lesson_id) = {}
                /\ ResultsIn(quiz_results', pc[w].args.lesson_id,
                             pc[w].args.student_id) = 0]_vars

\* a submit_quiz request has been answered by its completion step, after
\* its quiz result was committed, that the lesson is not found; the lesson
\* was deleted and no quiz result is stored
C24_Witness ==
    /\ resp.op = "submit_quiz" /\ resp.status = 404
    /\ resp.body.detail = "Leccion no encontrada"
    /\ LessonById(resp.args.lesson_id) = {} /\ CourseById(1) # {}
    /\ quiz_results = EmptyBag
    /\ \A w \in Workers : pc[w] = Idle

(***************************************************************************)
(* SpecReview: one application is reviewed again and again as time passes, *)
(* by the superuser, the director and a teacher.                           *)
(***************************************************************************)
NextReview ==
    \/ tick
    \/ create_application
    \/ \E st \in ApplicationStatus, u \in {1, 2, 3} :
          update_application_status(1, st, u)

SpecReview == Init /\ [][NextReview]_vars

\* C25: an application that is approved or rejected is not locked: an
\* update_application_status by a superuser or a director succeeds on it
\* whatever status is asked for, pending included, and stores that status,
\* this reviewer and the time of this review.
C25_ReviewNotLocked ==
    [][Served("update_application_status") /\ now' = now =>
          LET a == resp'.args.application_id IN
          /\ a \in DOMAIN applications_db
          /\ applications_db[a].status \in {"approved", "rejected"}
          /\ \E u \in UserById(resp'.args.reviewed_by) :
                 u.role \in {"superuser", "director"}
          => /\ resp'.status = 200
             /\ applications_db'[a].status = resp'.args.status
             /\ applications_db'[a].reviewed_by = Some(resp'.args.reviewed_by)
             /\ applications_db'[a].reviewed_at = Some(now)]_vars

\* application 1, created at time 0, is pending again with the superuser
\* as its reviewer and a later review time
C25_Witness ==
    /\ resp.op = "update_application_status" /\ resp.status = 200
    /\ resp.args.status = "pending" /\ resp.args.reviewed_by = 1
    /\ 1 \in DOMAIN applications_db
    /\ applications_db[1].status = "pending"
    /\ applications_db[1].created_at = 0
    /\ applications_db[1].reviewed_by = Some(1)
    /\ applications_db[1].reviewed_at = Some(1)

(***************************************************************************)
(* Grade labels of users and owners of courses.                            *)
(***************************************************************************)
update_user_grade(user_id, grade_level) ==
    LET args == [user_id |-> user_id, grade_level |-> grade_level]
        found == UserById(user_id)
    IN
    /\ IF found = {}
       THEN /\ resp' = Response("update_user_grade", args, 404,
                                [detail |-> "Usuario no encontrado"])
            /\ UNCHANGED users
       ELSE LET user == CHOOSE u \in found : TRUE IN
            IF user.role # "student"
            THEN /\ resp' = Response("update_user_grade", args, 400,
                        [detail |-> "Solo estudiantes pueden tener grado asignado"])
                 /\ UNCHANGED users
            ELSE LET updated == [user EXCEPT !.grade_level = grade_level] IN
                 /\ users' = (users \ found) \cup {updated}
                 /\ resp' = Response("update_user_grade", args, 200, updated)
    /\ UNCHANGED <<adminVars, evalVars, learnVars, messages, seq, now, pc>>

\* of the columns kept here update_course assigns the title; it assigns
\* neither teacher_id nor is_published
update_course(course_id, course) ==
    LET args == [course_id |-> course_id, course |-> course]
        found == CourseById(course_id)
    IN
    /\ IF found = {}
       THEN /\ resp' = Response("update_course", args, 404,
                                [detail |-> "Curso no encontrado"])
            /\ UNCHANGED courses
       ELSE LET updated == [(CHOOSE c \in found : TRUE)
                               EXCEPT !.title = course.title]
            IN
            /\ courses' = (courses \ found) \cup {updated}
            /\ resp' = Response("update_course", args, 200, updated)
    /\ UNCHANGED <<users, adminVars, evalVars, lessons, completions,
                   quiz_results, enrollments, messages, seq, now, pc>>

(***************************************************************************)
(* SpecUsers: users register, get grade labels and are deleted; courses    *)
(* are created, renamed and deleted.                                       *)
(***************************************************************************)
NextUsers ==
    \* grade_level: absent, or a label
    \/ \E e \in {"admin@emunahacademy.com", "nueva@emunahacademy.com"},
          r \in {"teacher", "student"}, g \in {None, Some("3")} :
          register(e, r, g)
    \* user_id: no user, a teacher, a student, the next user
    \/ \E u \in {0, 3, 5} \cup NewUserArgs, g \in {None, Some("3")} :
          update_user_grade(u, g)
    \/ \E t \in {0, 3, 5} \cup NewUserArgs :
          create_course([title |-> "Curso nuevo", is_published |-> FALSE], t)
    \/ \E c \in {0, 2} : update_course(c, [title |-> "Algebra"])
    \* course_id: no course and the next course
    \/ \E c \in {0, 4} : publish_course(c)
    \* user_id: a teacher who owns a course and the next user
    \/ \E u \in {3} \cup NewUserArgs : delete_user(u)
    \/ \E c \in {0, 2} : delete_course(c)
    \* created_by: no user, a teacher, the next user
    \/ \E u \in {0, 3} \cup NewUserArgs : create_calendar_event(Some(2), u)
    \* event_id: no event and the next event
    \/ \E e \in {0, 3} : delete_calendar_event(e)

SpecUsers == Init /\ [][NextUsers]_vars

\* C26: only students carry a grade label: register stores none, whatever
\* the request carries, and update_user_grade on a user who is no student
\* is a BadRequest that changes nothing.
C26_GradeOnlyForStudents ==
    /\ [](\A u \in users : u.grade_level # None => u.role = "student")
    /\ [][/\ Served("register") /\ resp'.status = 200 =>
               \E u \in users' \ users :
                   /\ users' = users \cup {u}
                   /\ u.grade_level = None
          /\ Served("update_user_grade") =>
               \A u \in UserById(resp'.args.user_id) :
                   u.role # "student" =>
                       /\ resp'.status = 400
                       /\ ErrorKind(resp'.status) = "BadRequest"
                       /\ users' = users]_vars

\* a registered teacher asked for a grade label and was refused: the
\* teacher has none, while a student has one
C26_Witness ==
    /\ resp.op = "update_user_grade" /\ resp.status = 400
    /\ resp.args.grade_level = Some("3")
    /\ \E u \in users :
          /\ u.id = resp.args.user_id /\ u.id > 7
          /\ u.role = "teacher" /\ u.grade_level = None
    /\ \E u \in users : u.role = "student" /\ u.grade_level = Some("3")

\* C27: the teacher_id of every stored course is the id of a stored user
\* whose role is teacher, director or superuser.
C27_CourseOwnersCanTeach ==
    \A c \in courses :
        \E u \in users :
            u.id = c.teacher_id /\ u.role \in {"teacher", "director", "superuser"}

\* the deletion of a teacher who owns a renamed course has been refused,
\* after a course owned by a newly registered teacher was created
C27_Witness ==
    /\ resp.op = "delete_user" /\ resp.status = 500
    /\ resp.args.user_id = 3
    /\ \E c \in courses : c.teacher_id = 3 /\ c.title = "Algebra"
    /\ \E c \in courses : c.teacher_id > 7

\* C28 as claimed: every record get_student_progress returns has
\* evaluations_completed <= total_evaluations, also after the student has
\* answered an evaluation more than once.
C28_EvaluationsWithinTotal ==
    [][Served("get_student_progress") /\ resp'.status = 200 =>
          \A i \in 1..Len(resp'.body.progress) :
              resp'.body.progress[i].evaluations_completed
                  <= resp'.body.progress[i].total_evaluations]_vars

(***************************************************************************)
(* SpecLessons: quizzes are added to two courses, edited, completed,       *)
(* answered and deleted, and the courses are deleted.                      *)
(***************************************************************************)
NextLessons ==
    \/ \E c \in {1, 2} : create_lesson(c, "quiz", QuizContent(<<1>>))
    \/ \E l \in ({3} \cup (4..MaxLessonId)) : update_lesson(l, "text", NotJson)
    \/ \E l \in ({3} \cup (4..MaxLessonId)) : delete_lesson(l)
    \/ \E l \in ({3} \cup (4..MaxLessonId)) : complete_lesson(l, 6)
    \/ \E l \in ({3} \cup (4..MaxLessonId)) : submit_quiz(l, <<1>>, 5)
    \/ \E c \in {1, 2} : delete_course(c)

SpecLessons == Init /\ [][NextLessons]_vars

\* C29: every completion and every quiz result is of a stored lesson and
\* every lesson is of a stored course: a delete_lesson that succeeds leaves
\* no completion and no quiz result of the lesson, and update_lesson
\* leaves the course_id of every lesson as it was.
C29_LessonReferences ==
    /\ [](/\ \A r \in BagToSet(completions) : LessonById(r.lesson_id) # {}
          /\ \A r \in BagToSet(quiz_results) : LessonById(r.lesson_id) # {}
          /\ \A l \in lessons : CourseById(l.course_id) # {})
    /\ [][/\ Served("delete_lesson") /\ resp'.status = 200 =>
               /\ \A r \in BagToSet(completions') :
                      r.lesson_id # resp'.args.lesson_id
               /\ \A r \in BagToSet(quiz_results') :
                      r.lesson_id # resp'.args.lesson_id
          /\ Served("update_lesson") =>
               /\ {l.id : l \in lessons'} = {l.id : l \in lessons}
               /\ \A l \in lessons, m \in lessons' :
                      l.id = m.id => l.course_id = m.course_id]_vars

\* the seeded quiz has been deleted while a later lesson keeps the
\* completions and the quiz result that were recorded for it
C29_Witness ==
    /\ resp.op = "delete_lesson" /\ resp.status = 200
    /\ resp.args.lesson_id = 3
    /\ LessonById(3) = {}
    /\ \E r \in BagToSet(quiz_results) : r.lesson_id = 4
    /\ \E r \in BagToSet(completions) : r.lesson_id = 4 /\ r.student_id = 6

(***************************************************************************)
(* Properties of mark_all_read, under SpecMsg.                             *)
(***************************************************************************)
\* the rows of a table sent by one user to another
SentBy(table, sender_id, receiver_id) ==
    {m \in table : m.sender_id = sender_id /\ m.receiver_id = receiver_id}

MarkAllReadExact ==
    Served("mark_all_read") /\ now' = now =>
        LET u == resp'.args.user_id
            c == resp'.args.other_user_id
        IN  /\ resp'.status = 200
            /\ \A m \in SentBy(messages', c, u) : m.is_read
            /\ SentBy(messages', c, u)
                   = {[m EXCEPT !.is_read = TRUE] : m \in SentBy(messages, c, u)}
            /\ messages' \ SentBy(messages', c, u)
                   = messages \ SentBy(messages, c, u)
            /\ \A conversations \in AllConversations(messages', u) :
                   \A i \in 1..Len(conversations) :
                       conversations[i].user_id = c
                           => conversations[i].unread_count = 0

ListAfterMarkAllRead ==
    /\ resp.op = "mark_all_read"
    /\ Served("get_conversations") /\ resp'.status = 200
    /\ resp'.args.user_id = resp.args.user_id
    => \A i \in 1..Len(resp'.body.conversations) :
           resp'.body.conversations[i].user_id = resp.args.other_user_id
               => resp'.body.conversations[i].unread_count = 0

ReadStaysRead ==
    \A m \in messages : m.is_read =>
        \E n \in messages' : n.id = m.id /\ n.is_read

\* C30: mark_all_read(user_id, other_user_id) marks read the messages sent
\* by other_user_id to user_id and changes no other message, those sent by
\* user_id to other_user_id included; the list get_conversations(user_id)
\* returns right afterwards shows that counterparty with unread_count 0;
\* no step turns the read flag of a message from true to false.
C30_MarkAllRead ==
    [][MarkAllReadExact /\ ListAfterMarkAllRead /\ ReadStaysRead]_vars

\* student 5 has just marked all messages of teacher 3 read: the message of
\* 3 to 5 is read and the message of 5 to 3 is still unread
C30_Witness ==
    /\ resp.op = "mark_all_read" /\ resp.status = 200
    /\ resp.args = [user_id |-> 5, other_user_id |-> 3]
    /\ \E m \in messages : m.sender_id = 3 /\ m.receiver_id = 5 /\ m.is_read
    /\ \E m \in messages : m.sender_id = 5 /\ m.receiver_id = 3 /\ ~m.is_read

====
